---- MODULE Spec2Model ----
(***************************************************************************)
(* Model of the image text-region detection and enhancement pipeline       *)
(* (SmartTextDetector, utils/textDetection) and of the threshold engine    *)
(* it shares with ImagePreprocessor, of the pixel filters of both, and of  *)
(* the components around them: ChineseAnalysis (translation and speech),   *)
(* OCRProcessor (the runs of processOCR), VoiceService (the audio cache)   *)
(* and App (the views).                                                    *)
(*                                                                         *)
(* Numbers.  Pixel channels are integers 0..255.  A confidence is kept as  *)
(* an integer number of units of 1/ConfDen, so that the three scanners'    *)
(* scores (edgeSum/(400*255), tenths, dark/625) are all exact.  Floating   *)
(* point comparisons of the source are stated on exact integers            *)
(* (sqrt(a) < 50 as a < 2500, s/n/255 > 0.3 as 10*s > 3*255*n).            *)
(***************************************************************************)
EXTENDS Integers, Sequences, FiniteSets, TLC

(***************************************************************************)
(* Bounds of the model.                                                    *)
(***************************************************************************)
\* longest region list handed to mergeNearbyRegions in SpecMerge
MaxRegions == 3
\* largest count of one histogram bin in SpecOtsu
MaxCount == 3

(***************************************************************************)
(* Arithmetic helpers.                                                     *)
(***************************************************************************)
Min(a, b) == IF a < b THEN a ELSE b
Max(a, b) == IF a > b THEN a ELSE b

RECURSIVE SumOver(_, _, _)
\* F(lo) + F(lo+1) + ... + F(hi): the accumulation loops of the source
SumOver(F(_), lo, hi) ==
    IF lo > hi THEN 0
    ELSE IF lo = hi THEN F(lo)
    ELSE LET mid == (lo + hi) \div 2
         IN  SumOver(F, lo, mid) + SumOver(F, mid + 1, hi)

\* A sequence or function with every element computed once: TLC keeps
\* [x \in S |-> e] unevaluated and computes e again at every application,
\* while \o and @@ build the value.
Seq1(s) == s \o << >>
Fcn1(f) == f @@ << >>

\* units of confidence per 1.0
ConfDen == 2000 * 255

(***************************************************************************)
(* Input images.  An image is named; its size and pixels are given by      *)
(* ImgWidth, ImgHeight and RGB.  The images are synthetic and chosen so    *)
(* that every branch of the detection is taken: no candidate at all, edge  *)
(* candidates, color candidates, several merged regions, an image smaller  *)
(* than one scan block, and an image with one edge candidate next to one   *)
(* color candidate.                                                        *)
(***************************************************************************)
Images == {"blank", "tiny", "stripes", "dots", "twoWords", "mixed"}

ImgWidth(img) ==
    CASE img = "blank"    -> 64
      [] img = "tiny"     -> 8
      [] img = "stripes"  -> 64
      [] img = "dots"     -> 64
      [] img = "twoWords" -> 130
      [] img = "mixed"    -> 64

ImgHeight(img) ==
    CASE img = "blank"    -> 32
      [] img = "tiny"     -> 8
      [] img = "stripes"  -> 32
      [] img = "dots"     -> 32
      [] img = "twoWords" -> 32
      [] img = "mixed"    -> 32

White == <<255, 255, 255>>
Black == <<0, 0, 0>>

\* the pixel at (x, y) as <<r, g, b>>
RGB(img, x, y) ==
    CASE img = "blank"    -> White
      [] img = "tiny"     -> IF x < 4 THEN Black ELSE White
      [] img = "stripes"  -> IF x % 4 < 2 THEN Black ELSE White
      [] img = "dots"     -> IF x % 5 = 2 /\ y % 5 = 2
                                THEN <<224, 0, 0>> ELSE Black
      [] img = "twoWords" -> IF (x < 42 \/ x >= 80) /\ x % 4 < 2
                                THEN Black ELSE White
      [] img = "mixed"    -> IF x < 20
                                THEN (IF x % 4 < 2 THEN Black ELSE White)
                                ELSE (IF x % 5 = 2 /\ y % 5 = 2
                                         THEN <<224, 0, 0>> ELSE Black)

\* imageData.data of each image, one <<r, g, b>> per pixel, row-major:
\* pixel (x, y) is at index y * width + x
DataOf ==
    Fcn1([img \in Images |->
        Fcn1([lin \in 0..(ImgWidth(img) * ImgHeight(img) - 1) |->
            RGB(img, lin % ImgWidth(img), lin \div ImgWidth(img))])])

\* data.length / 4
DataLength(img) == ImgWidth(img) * ImgHeight(img)

(***************************************************************************)
(* TextRegion and region lists.                                            *)
(***************************************************************************)
Region(x, y, w, h, c) ==
    [x |-> x, y |-> y, width |-> w, height |-> h, confidence |-> c]

(***************************************************************************)
(* Scan tiling: the nested for loops                                       *)
(*   for (y = 0; y < height - blockSize; y += blockSize)                   *)
(*     for (x = 0; x < width - blockSize; x += blockSize)                  *)
(* of the three scanners.                                                  *)
(***************************************************************************)
LoopCountNoMargin(dim, blockSize) == (dim + blockSize - 1) \div blockSize
\* number of iterations of  for (v = 0; v < dim - blockSize; v += blockSize)
LoopCount(dim, blockSize) ==
    IF dim - blockSize <= 0 THEN 0
    ELSE ((dim - blockSize - 1) \div blockSize) + 1

\* the block origins <<x, y>> in the order the loops visit them
BlockOrigins(width, height, blockSize) ==
    LET nx == LoopCount(width, blockSize)
        ny == LoopCount(height, blockSize)
    IN  [i \in 1..(nx * ny) |->
            << ((i - 1) % nx) * blockSize, ((i - 1) \div nx) * blockSize >>]

\* the block origins of one scanner on one image
BlocksOf(img, blockSize) ==
    BlockOrigins(ImgWidth(img), ImgHeight(img), blockSize)

\* the indices (idx / 4) a block loop
\*   for dy < size, for dx < size: idx = ((y + dy) * width + (x + dx)) * 4;
\*   if (idx < data.length) ...
\* reads, in loop order
BlockIndices(img, x, y, size) ==
    Seq1(SelectSeq([k \in 1..(size * size) |->
                  (y + ((k - 1) \div size)) * ImgWidth(img) + x + ((k - 1) % size)],
              LAMBDA lin : lin < DataLength(img)))

\* the blocks that pass a scanner's test, as <<origin, score>> in scan order
ScoredBlocks(origins, Score(_), Passes(_)) ==
    Seq1(SelectSeq([i \in 1..Len(origins) |-> << origins[i], Score(origins[i]) >>],
                   LAMBDA p : Passes(p[2])))

(***************************************************************************)
(* Edge scanner.                                                           *)
(***************************************************************************)
sobelX == <<-1, 0, 1, -2, 0, 2, -1, 0, 1>>
sobelY == <<-1, -2, -1, 0, 0, 0, 1, 2, 1>>

\* 3 * gray of the source: gray = (r + g + b) / 3
GraySum(p) == p[1] + p[2] + p[3]

\* min(255, sqrt(gx^2 + gy^2)) as the Uint8ClampedArray store rounds it,
\* from n = (3 gx)^2 + (3 gy)^2
ClampedMagnitude(n) ==
    IF n >= (3 * 255) * (3 * 255) THEN 255
    ELSE IF n = 0 THEN 0
    ELSE CHOOSE r \in 0..255 :
            /\ (r = 0 \/ (6 * r - 3) * (6 * r - 3) <= 4 * n)
            /\ 4 * n < (6 * r + 3) * (6 * r + 3)

SumOfSquares(a, b) == a * a + b * b

\* gx and gy (times 3) of the 3x3 neighbourhood g, g[1..9] row by row
SobelOf(g) ==
    ClampedMagnitude(SumOfSquares(
        SumOver(LAMBDA k : GraySum(g[k]) * sobelX[k], 1, 9),
        SumOver(LAMBDA k : GraySum(g[k]) * sobelY[k], 1, 9)))

\* the value sobelEdgeDetection stores in edges[] for pixel (x, y):
\* 0 on the border (the array starts zeroed), else the clamped magnitude
sobelEdgeDetection(img, x, y) ==
    IF x < 1 \/ y < 1 \/ x >= ImgWidth(img) - 1 \/ y >= ImgHeight(img) - 1
    THEN 0
    ELSE SobelOf(Seq1([k \in 1..9 |->
            DataOf[img][(y + ((k - 1) \div 3) - 1) * ImgWidth(img)
                        + x + ((k - 1) % 3) - 1]]))

\* edges.data of each image
EdgesOf ==
    Fcn1([img \in Images |->
        Fcn1([lin \in 0..(DataLength(img) - 1) |->
            sobelEdgeDetection(img, lin % ImgWidth(img), lin \div ImgWidth(img))])])

\* edgeSum and pixelCount of the block indices idx
EdgeSums(img, idx) ==
    << SumOver(LAMBDA k : EdgesOf[img][idx[k]], 1, Len(idx)), Len(idx) >>

\* calculateEdgeScore as <<edgeSum, pixelCount>>
calculateEdgeScore(img, x, y, size) ==
    EdgeSums(img, BlockIndices(img, x, y, size))

EdgeBlockSize == 20

\* edgeScore > 0.3, with edgeScore = pixelCount > 0 ?
\* (edgeSum / pixelCount) / 255 : 0
EdgePasses(score) == score[2] > 0 /\ 10 * score[1] > 3 * 255 * score[2]

EdgeRegion(origin, score) ==
    Region(origin[1], origin[2], EdgeBlockSize, EdgeBlockSize,
           IF score[2] > 0 THEN (score[1] * 2000) \div score[2] ELSE 0)

EdgeRegions(blocks) ==
    [k \in 1..Len(blocks) |-> EdgeRegion(blocks[k][1], blocks[k][2])]

\* the candidate blocks of the edge scanner, before its merge
EdgeCandidates(img) ==
    EdgeRegions(ScoredBlocks(BlocksOf(img, EdgeBlockSize),
        LAMBDA o : calculateEdgeScore(img, o[1], o[2], EdgeBlockSize),
        EdgePasses))

(***************************************************************************)
(* Color scanner.                                                          *)
(***************************************************************************)
\* Math.round(v / step) * step for v >= 0
Quantize(v, step) == ((2 * v + step) \div (2 * step)) * step

\* n^2 * (variance - limit^2) < 0 for n colors with channel sums s and sums
\* of squares q; split so that no intermediate exceeds 2^31
VarianceTest(n, s, q, limit) ==
    LET A(c) == (q[c] \div n) - (s[c] \div n) * (s[c] \div n)
        D(c) == n * ((q[c] % n) - 2 * (s[c] \div n) * (s[c] % n))
                - (s[c] % n) * (s[c] % n)
        a == A(1) + A(2) + A(3) - limit * limit
        k == 2000000000 \div (n * n)
    IN  IF a > k THEN FALSE
        ELSE IF a < -k THEN TRUE
        ELSE n * n * a < -(D(1) + D(2) + D(3))

\* calculateColorVariance(colors) < limit, on exact integers.  With n colors,
\* channel sums S and sums of squares Q, the variance is the sum over the
\* channels of Q/n - (S/n)^2.  An empty list has variance 0.
VarianceBelow(colors, limit) ==
    IF Len(colors) = 0 THEN 0 < limit
    ELSE VarianceTest(Len(colors),
            Seq1([c \in 1..3 |->
                    SumOver(LAMBDA k : colors[k][c], 1, Len(colors))]),
            Seq1([c \in 1..3 |->
                    SumOver(LAMBDA k : colors[k][c] * colors[k][c], 1, Len(colors))]),
            limit)

QuantColor(p) == << Quantize(p[1], 32), Quantize(p[2], 32), Quantize(p[3], 32) >>

\* the first maxColors of the distinct colors qs by falling count; the sort
\* is stable, so equal counts keep the order of first[]
TopColors(qs, cnt, first, maxColors) ==
    LET Before(p, q) == cnt[p] > cnt[q] \/ (cnt[p] = cnt[q] /\ first[p] < first[q])
    IN  [i \in 1..Min(maxColors, Cardinality(qs)) |->
            CHOOSE q \in qs : Cardinality({p \in qs : Before(p, q)}) = i - 1]

\* the colorMap of findDominantColors from the quantized colors qc
ColorCounts(qc, qs, maxColors) ==
    TopColors(qs,
        Fcn1([q \in qs |-> Cardinality({k \in 1..Len(qc) : qc[k] = q})]),
        Fcn1([q \in qs |-> CHOOSE k \in 1..Len(qc) :
                              qc[k] = q /\ \A j \in 1..(k - 1) : qc[j] # q]),
        maxColors)

DistinctOf(qc, maxColors) == ColorCounts(qc, {qc[k] : k \in 1..Len(qc)}, maxColors)

\* findDominantColors(colors, maxColors): the quantized (32-step) colors
\* by falling count
findDominantColors(colors, maxColors) ==
    DistinctOf(Seq1([k \in 1..Len(colors) |-> QuantColor(colors[k])]), maxColors)

SqDist(c1, c2) ==
    (c1[1] - c2[1]) * (c1[1] - c2[1]) + (c1[2] - c2[2]) * (c1[2] - c2[2])
        + (c1[3] - c2[3]) * (c1[3] - c2[3])

hasHighContrastAlone(colors) ==
    IF Len(colors) < 2 THEN TRUE
    ELSE SqDist(colors[1], colors[2]) > 100 * 100

hasHighContrast(colors) ==
    IF Len(colors) < 2 THEN FALSE
    ELSE SqDist(colors[1], colors[2]) > 100 * 100

\* lines 253-260 from the three signals
ColorVerdict(hasLowVariance, hasFewColors, highContrast) ==
    [isTextLike |-> hasLowVariance /\ hasFewColors /\ highContrast,
     confidence |-> (IF hasLowVariance THEN (4 * ConfDen) \div 10 ELSE 0)
                    + (IF hasFewColors THEN (3 * ConfDen) \div 10 ELSE 0)
                    + (IF highContrast THEN (3 * ConfDen) \div 10 ELSE 0)]

ColorSignals(colors, dominantColors) ==
    ColorVerdict(VarianceBelow(colors, 50), Len(dominantColors) <= 2,
                 hasHighContrast(dominantColors))

AnalyzeColors(colors) ==
    ColorSignals(colors, Seq1(findDominantColors(colors, 3)))

BlockColors(img, idx) == Seq1([k \in 1..Len(idx) |-> DataOf[img][idx[k]]])

analyzeColorBlock(img, x, y, size) ==
    AnalyzeColors(BlockColors(img, BlockIndices(img, x, y, size)))

ColorBlockSize == 30

ColorRegions(blocks) ==
    [k \in 1..Len(blocks) |->
        Region(blocks[k][1][1], blocks[k][1][2], ColorBlockSize, ColorBlockSize,
               blocks[k][2].confidence)]

\* the candidate blocks of the color scanner, before its merge
ColorCandidates(img) ==
    ColorRegions(ScoredBlocks(BlocksOf(img, ColorBlockSize),
        LAMBDA o : analyzeColorBlock(img, o[1], o[2], ColorBlockSize),
        LAMBDA an : an.isTextLike))

(***************************************************************************)
(* Stroke scanner.                                                         *)
(***************************************************************************)
\* darkRatio > 0.1 && darkRatio < 0.4 ? darkRatio : 0, in units of 1/ConfDen
StrokeScore(strokeLikePixels, totalPixels) ==
    IF /\ totalPixels > 0
       /\ 10 * strokeLikePixels > totalPixels
       /\ 10 * strokeLikePixels < 4 * totalPixels
    THEN (strokeLikePixels * ConfDen) \div totalPixels
    ELSE 0

DarkPixels(img, idx) ==
    SumOver(LAMBDA k : IF GraySum(DataOf[img][idx[k]]) < 3 * 128 THEN 1 ELSE 0,
            1, Len(idx))

StrokeOf(img, idx) == StrokeScore(DarkPixels(img, idx), Len(idx))

calculateStrokeScore(img, x, y, size) ==
    StrokeOf(img, BlockIndices(img, x, y, size))

StrokeBlockSize == 25

StrokeRegions(blocks) ==
    [k \in 1..Len(blocks) |->
        Region(blocks[k][1][1], blocks[k][1][2], StrokeBlockSize, StrokeBlockSize,
               blocks[k][2])]

\* detectTextByStroke: a block is pushed when strokeScore > 0.4
detectTextByStroke(img) ==
    StrokeRegions(ScoredBlocks(BlocksOf(img, StrokeBlockSize),
        LAMBDA o : calculateStrokeScore(img, o[1], o[2], StrokeBlockSize),
        LAMBDA sc : 10 * sc > 4 * ConfDen))

(***************************************************************************)
(* Region merger.                                                          *)
(***************************************************************************)
MergeThreshold == 50

\* the filter at the end of mergeNearbyRegions
KeepRegionLoose(r) == r.width >= 20 /\ r.height >= 10
KeepRegion(r) == r.width > 20 /\ r.height > 10

\* the body of  if (distance < 50)  : the union of current and r
AbsorbKeepAnchor(cur, r) ==
    Region(cur.x, cur.y, cur.width, cur.height,
           Max(cur.confidence, r.confidence))
Absorb(cur, r) ==
    LET minX == Min(cur.x, r.x)
        minY == Min(cur.y, r.y)
        maxX == Max(cur.x + cur.width, r.x + r.width)
        maxY == Max(cur.y + cur.height, r.y + r.height)
    IN  Region(minX, minY, maxX - minX, maxY - minY,
               Max(cur.confidence, r.confidence))

Near(cur, r) ==
    (cur.x - r.x) * (cur.x - r.x) + (cur.y - r.y) * (cur.y - r.y)
        < MergeThreshold * MergeThreshold

RECURSIVE MergeInner(_, _, _, _)
\* the inner loop over j: <<currentRegion, used>> when it ends
MergeInner(regions, j, cur, used) ==
    IF j > Len(regions) THEN << cur, used >>
    ELSE IF j \in used THEN MergeInner(regions, j + 1, cur, used)
    ELSE IF Near(cur, regions[j])
         THEN MergeInner(regions, j + 1, Absorb(cur, regions[j]), used \cup {j})
         ELSE MergeInner(regions, j + 1, cur, used)

RECURSIVE MergeOuter(_, _, _, _)
\* the outer loop over i: the list merged when it ends
MergeOuter(regions, i, used, merged) ==
    IF i > Len(regions) THEN merged
    ELSE IF i \in used THEN MergeOuter(regions, i + 1, used, merged)
    ELSE LET res == MergeInner(regions, i + 1, regions[i], used \cup {i})
         IN  MergeOuter(regions, i + 1, res[2], Append(merged, res[1]))

\* the clusters of one pass, before the size filter
MergeClusters(regions) == MergeOuter(regions, 1, {}, << >>)

RECURSIVE MergeMembers(_, _, _, _)
\* the outer loop over i again, keeping for each cluster its anchor i and
\* the indices added to `used` while currentRegion was that cluster
MergeMembers(regions, i, used, sets) ==
    IF i > Len(regions) THEN sets
    ELSE IF i \in used THEN MergeMembers(regions, i + 1, used, sets)
    ELSE LET res == MergeInner(regions, i + 1, regions[i], used \cup {i})
         IN  MergeMembers(regions, i + 1, res[2],
                 Append(sets, [anchor |-> i, members |-> res[2] \ used,
                               usedBefore |-> used]))

ClusterMembers(regions) == MergeMembers(regions, 1, {}, << >>)

mergeNearbyRegions(regions) == SelectSeq(MergeClusters(regions), KeepRegion)

mergeOverlappingRegions(regions) == mergeNearbyRegions(regions)

\* the scanners are functions of the image alone; each is computed once
EdgeCandidatesOf == Fcn1([img \in Images |-> EdgeCandidates(img)])
ColorCandidatesOf == Fcn1([img \in Images |-> ColorCandidates(img)])
StrokeRegionsOf == Fcn1([img \in Images |-> detectTextByStroke(img)])

detectTextByEdgesRaw(img) == EdgeCandidatesOf[img]
detectTextByEdges(img) == mergeNearbyRegions(EdgeCandidatesOf[img])

detectTextByColor(img) == mergeNearbyRegions(ColorCandidatesOf[img])

\* lines 46-55: what detectAndExtractText hands to mergeOverlappingRegions
ScannedRegions(img) ==
    detectTextByEdges(img) \o detectTextByColor(img) \o StrokeRegionsOf[img]

\* lines 44-59: the region list of one image with useTextDetection set
DetectRegions(img) == mergeOverlappingRegions(ScannedRegions(img))

RegionsOf == Fcn1([img \in Images |-> DetectRegions(img)])

(***************************************************************************)
(* detectAndExtractText on the shared smartTextDetector instance.          *)
(*                                                                         *)
(* Calls are the invocations that may be in flight together; each is an    *)
(* async function and the steps below are its synchronous runs between     *)
(* two awaits.  canvas is this.canvas of the one exported instance.        *)
(***************************************************************************)
Calls == {1, 2}

\* the images given to the calls: no region, one region, two regions, and
\* candidates of two scanners
CallImages == {"blank", "dots", "twoWords", "mixed"}

Options ==
    [useTextDetection : BOOLEAN, multipleRegions : BOOLEAN,
     enhanceTextRegions : BOOLEAN, useDeepLearning : BOOLEAN,
     fallbackToOriginal : BOOLEAN]

\* multipleRegions and useDeepLearning are read nowhere in lines 28-78;
\* the calls of the model vary the three options that are read
OptionChoices ==
    {o \in Options : o.multipleRegions /\ ~o.useDeepLearning}

getDefaultOptions ==
    [useTextDetection |-> TRUE, multipleRegions |-> TRUE,
     enhanceTextRegions |-> TRUE, useDeepLearning |-> FALSE,
     fallbackToOriginal |-> TRUE]

VARIABLES
    pc,              \* where each call stands
    file,            \* the image each call was given
    options,         \* the options each call was given
    textRegions,     \* the local textRegions of each call
    processedImages, \* the local processedImages of each call
    regionIdx,       \* the region whose toBlob a call awaits
    pendingBlob,     \* the bitmap a pending toBlob of the call encodes
    canvas,          \* this.canvas of the shared detector
    sources,         \* the source labels processOCR gave the call's buffers
    redrawn          \* history: this.canvas was drawn on by another call
                     \* while the call's toBlob of it was pending

orchVars == << pc, file, options, textRegions, processedImages, regionIdx,
               pendingBlob, canvas, sources, redrawn >>

NoBitmap == << "none" >>

\* the bitmap of a canvas after drawImage(img, 0, 0)
RawBitmap(img) == << "raw", img >>
\* the bitmap putImageData leaves after removeComplexBackground,
\* enhanceTextContrast and reduceColorComplexity of the drawn image
GlobalBitmap(bitmap) == << "global", bitmap >>
\* the bitmap of a region canvas after the crop and enhanceTextRegion
RegionBitmap(img, region) == << "region", RawBitmap(img), region >>

RegionFile(bitmap, region) ==
    [name |-> << "text_region", region.x, region.y >>, bitmap |-> bitmap]
GlobalFile(bitmap) ==
    [name |-> << "enhanced_global.png" >>, bitmap |-> bitmap]

\* canvas.toBlob encodes a copy of the bitmap taken when toBlob is called
\* (HTML: "set result to a copy of this canvas element's bitmap", then
\* serialise in parallel), not the bitmap at the time of the callback
ToBlobAtCallback(atCall, atCallback) == atCallback
ToBlobBitmap(atCall, atCallback) == atCall

\* line 64
EnhancesRegionsAlways(opts, regions) == Len(regions) > 0
EnhancesRegions(opts, regions) == Len(regions) > 0 /\ opts.enhanceTextRegions

\* line 72
NeedsGlobalBoth(opts, regions) == opts.fallbackToOriginal /\ Len(regions) = 0
NeedsGlobalOnlyFallback(opts, regions) == opts.fallbackToOriginal
NeedsGlobal(opts, regions) == opts.fallbackToOriginal \/ Len(regions) = 0

OrchInit ==
    /\ pc = [c \in Calls |-> "Idle"]
    /\ file = [c \in Calls |-> "blank"]
    /\ options = [c \in Calls |-> getDefaultOptions]
    /\ textRegions = [c \in Calls |-> << >>]
    /\ processedImages = [c \in Calls |-> << >>]
    /\ regionIdx = [c \in Calls |-> 0]
    /\ pendingBlob = [c \in Calls |-> NoBitmap]
    /\ canvas = [width |-> 300, height |-> 150, bitmap |-> NoBitmap]
    /\ sources = [c \in Calls |-> << >>]
    /\ redrawn = [c \in Calls |-> FALSE]

\* a call other than c awaits the toBlob of this.canvas while c draws on it
RedrawnBy(c) ==
    [d \in Calls |-> redrawn[d] \/ (d # c /\ pc[d] = "GlobalBlob")]

\* lines 28-32: the call starts and awaits loadImage
Invoke(c, img, opts) ==
    /\ pc[c] \in {"Idle", "Done", "Failed", "Recognized"}
    /\ pc' = [pc EXCEPT ![c] = "Loading"]
    /\ file' = [file EXCEPT ![c] = img]
    /\ options' = [options EXCEPT ![c] = opts]
    /\ textRegions' = [textRegions EXCEPT ![c] = << >>]
    /\ processedImages' = [processedImages EXCEPT ![c] = << >>]
    /\ regionIdx' = [regionIdx EXCEPT ![c] = 0]
    /\ pendingBlob' = [pendingBlob EXCEPT ![c] = NoBitmap]
    /\ sources' = [sources EXCEPT ![c] = << >>]
    /\ redrawn' = [redrawn EXCEPT ![c] = FALSE]
    /\ UNCHANGED canvas

\* lines 80-87, img.onerror = reject: the await throws and the call rejects
ImageError(c) ==
    /\ pc[c] = "Loading"
    /\ pc' = [pc EXCEPT ![c] = "Failed"]
    /\ UNCHANGED << file, options, textRegions, processedImages, regionIdx,
                    pendingBlob, canvas, sources, redrawn >>

\* lines 61-77 from the region loop on: with `images` pushed so far and the
\* canvas `cv`, start the toBlob of region `next`, or of the global image,
\* or return
Proceed(c, regions, next, images, cv) ==
    /\ textRegions' = [textRegions EXCEPT ![c] = regions]
    /\ processedImages' = [processedImages EXCEPT ![c] = images]
    /\ IF EnhancesRegions(options[c], regions) /\ next <= Len(regions)
       THEN \* extractAndEnhanceRegion, lines 394-425: a canvas of its own
            /\ pc' = [pc EXCEPT ![c] = "RegionBlob"]
            /\ regionIdx' = [regionIdx EXCEPT ![c] = next]
            /\ pendingBlob' = [pendingBlob EXCEPT ![c] =
                                  RegionBitmap(file[c], regions[next])]
            /\ canvas' = cv
            /\ redrawn' = IF cv = canvas THEN redrawn ELSE RedrawnBy(c)
       ELSE IF NeedsGlobal(options[c], regions)
       THEN \* createGlobalEnhancedImage, lines 447-462: this.canvas
            LET drawn == [width |-> ImgWidth(file[c]),
                          height |-> ImgHeight(file[c]),
                          bitmap |-> RawBitmap(file[c])]
                put == [drawn EXCEPT !.bitmap = GlobalBitmap(drawn.bitmap)]
            IN  /\ pc' = [pc EXCEPT ![c] = "GlobalBlob"]
                /\ regionIdx' = [regionIdx EXCEPT ![c] = 0]
                /\ pendingBlob' = [pendingBlob EXCEPT ![c] = put.bitmap]
                /\ canvas' = put
                /\ redrawn' = RedrawnBy(c)
       ELSE /\ pc' = [pc EXCEPT ![c] = "Done"]
            /\ regionIdx' = [regionIdx EXCEPT ![c] = 0]
            /\ pendingBlob' = [pendingBlob EXCEPT ![c] = NoBitmap]
            /\ canvas' = cv
            /\ redrawn' = IF cv = canvas THEN redrawn ELSE RedrawnBy(c)

\* lines 32-60, img.onload = resolve: the canvas is set up, the image data
\* read back from it and the regions detected, then line 61 on
ImageLoaded(c) ==
    /\ pc[c] = "Loading"
    /\ LET drawn == [width |-> ImgWidth(file[c]),
                     height |-> ImgHeight(file[c]),
                     bitmap |-> RawBitmap(file[c])]
           imageData == drawn.bitmap[2]
           regions == IF options[c].useTextDetection
                      THEN RegionsOf[imageData] ELSE << >>
       IN  Proceed(c, regions, 1, << >>, drawn)
    /\ UNCHANGED << file, options, sources >>

\* lines 424-434 and 66-67: the toBlob callback of a region canvas.  With a
\* blob the file resolves the promise and is pushed; with null nothing
\* settles the promise
RegionBlobReady(c, blob) ==
    /\ pc[c] = "RegionBlob"
    /\ IF blob
       THEN LET f == RegionFile(pendingBlob[c], textRegions[c][regionIdx[c]])
            IN  Proceed(c, textRegions[c], regionIdx[c] + 1,
                        Append(processedImages[c], f), canvas)
       ELSE /\ pc' = [pc EXCEPT ![c] = "Pending"]
            /\ UNCHANGED << textRegions, processedImages, regionIdx,
                            pendingBlob, canvas, redrawn >>
    /\ UNCHANGED << file, options, sources >>

\* lines 461-471 and 73-77: the toBlob callback of this.canvas
GlobalBlobReady(c, blob) ==
    /\ pc[c] = "GlobalBlob"
    /\ IF blob
       THEN LET f == GlobalFile(ToBlobBitmap(pendingBlob[c], canvas.bitmap))
            IN  /\ processedImages' =
                      [processedImages EXCEPT ![c] = Append(@, f)]
                /\ pc' = [pc EXCEPT ![c] = "Done"]
                /\ pendingBlob' = [pendingBlob EXCEPT ![c] = NoBitmap]
       ELSE /\ pc' = [pc EXCEPT ![c] = "Pending"]
            /\ UNCHANGED << processedImages, pendingBlob >>
    /\ UNCHANGED << file, options, textRegions, regionIdx, canvas, sources,
                    redrawn >>

\* OCRProcessor.processOCR lines 101-104: the label of buffer i (from 0)
SourceOf(i, regions) ==
    IF i < Len(regions) THEN << "Region", i + 1 >> ELSE << "Enhanced Global" >>

\* OCRProcessor.processOCR lines 90-132: the caller labels every buffer of
\* the resolved call and hands it to the recogniser
ProcessImages(c) ==
    /\ pc[c] = "Done"
    /\ sources' = [sources EXCEPT ![c] =
           [i \in 1..Len(processedImages[c]) |-> SourceOf(i - 1, textRegions[c])]]
    /\ pc' = [pc EXCEPT ![c] = "Recognized"]
    /\ UNCHANGED << file, options, textRegions, processedImages, regionIdx,
                    pendingBlob, canvas, redrawn >>

(***************************************************************************)
(* mergeNearbyRegions as a function of its argument: a region list is      *)
(* drawn, merged, and the result merged again.                             *)
(***************************************************************************)
VARIABLES
    mIn,     \* the list given to mergeNearbyRegions
    mOut,    \* mergeNearbyRegions(mIn)
    mOut2,   \* mergeNearbyRegions(mOut)
    mStage   \* "off", "in", "once", "twice"

mergeVars == << mIn, mOut, mOut2, mStage >>

MergePositions == { <<0, 0>>, <<30, 0>>, <<60, 0>>, <<30, 40>> }
MergeSizes == { <<15, 30>>, <<40, 40>>, <<30, 10>> }
MergeConfs == { ConfDen \div 2, ConfDen }

MergeRegions ==
    { Region(p[1], p[2], z[1], z[2], c) :
        p \in MergePositions, z \in MergeSizes, c \in MergeConfs }

\* the lists the scanners of the model's images hand to the merger
ScannerLists ==
    UNION { { EdgeCandidatesOf[img], ColorCandidatesOf[img], ScannedRegions(img) } :
            img \in Images }

MergeInputs ==
    ScannerLists \cup
    UNION { [1..n -> MergeRegions] : n \in 0..MaxRegions }

MergeOff ==
    /\ mIn = << >>
    /\ mOut = << >>
    /\ mOut2 = << >>
    /\ mStage = "off"

MergeInit ==
    /\ mIn \in MergeInputs
    /\ mOut = << >>
    /\ mOut2 = << >>
    /\ mStage = "in"

MergeOnce ==
    /\ mStage = "in"
    /\ mOut' = mergeNearbyRegions(mIn)
    /\ mStage' = "once"
    /\ UNCHANGED << mIn, mOut2 >>

MergeAgain ==
    /\ mStage = "once"
    /\ mOut2' = mergeNearbyRegions(mOut)
    /\ mStage' = "twice"
    /\ UNCHANGED << mIn, mOut >>

(***************************************************************************)
(* calculateOtsuThreshold (the two copies, App.tsx 357-390 and             *)
(* textDetection 588-621, are the same text).  varBetween is kept as the   *)
(* exact fraction num/den:                                                 *)
(*   wB * wF * (sumB/wB - (sum - sumB)/wF)^2                               *)
(*     = (sumB * wF - (sum - sumB) * wB)^2 / (wB * wF).                    *)
(* Two such fractions are compared by cross multiplication; with bins of   *)
(* more than a few pixels the products exceed 2^31 and are computed on     *)
(* base-1000 digits, least significant first.                              *)
(***************************************************************************)
Abs(n) == IF n < 0 THEN -n ELSE n

RECURSIVE Digits(_)
\* the base-1000 digits of n >= 0
Digits(n) == IF n < 1000 THEN << n >> ELSE << n % 1000 >> \o Digits(n \div 1000)

RECURSIVE Carry(_, _, _)
\* the digits of the number whose k-th column holds raw[k], from column k
\* on, with `carry` coming in
Carry(raw, k, carry) ==
    IF k > Len(raw) THEN (IF carry = 0 THEN << >> ELSE Digits(carry))
    ELSE LET v == raw[k] + carry
         IN  << v % 1000 >> \o Carry(raw, k + 1, v \div 1000)

\* the digits of x * y
DigitsTimes(x, y) ==
    Carry(Seq1([k \in 1..(Len(x) + Len(y) - 1) |->
              SumOver(LAMBDA i : IF k - i + 1 \in 1..Len(y)
                                 THEN x[i] * y[k - i + 1] ELSE 0,
                      1, Len(x))]), 1, 0)

\* the number of digits of x without leading zeros
Significant(x) ==
    IF \A k \in 1..Len(x) : x[k] = 0 THEN 0
    ELSE CHOOSE k \in 1..Len(x) : x[k] # 0 /\ \A j \in (k + 1)..Len(x) : x[j] = 0

\* x > y on digits
DigitsGreater(x, y) ==
    LET nx == Significant(x)
        ny == Significant(y)
    IN  IF nx # ny THEN nx > ny
        ELSE \E k \in 1..nx :
                /\ x[k] > y[k]
                /\ \A j \in (k + 1)..nx : x[j] = y[j]

\* a^2 / b > c^2 / e  for b, e > 0, as  a^2 * e > c^2 * b
VarGreaterOrEqual(a, b, c, e) ==
    IF Abs(a) <= 5000 /\ Abs(c) <= 5000 /\ b <= 80 /\ e <= 80
    THEN (a * a) * e >= (c * c) * b
    ELSE ~DigitsGreater(
            DigitsTimes(DigitsTimes(Digits(Abs(c)), Digits(Abs(c))), Digits(b)),
            DigitsTimes(DigitsTimes(Digits(Abs(a)), Digits(Abs(a))), Digits(e)))
VarGreater(a, b, c, e) ==
    IF Abs(a) <= 5000 /\ Abs(c) <= 5000 /\ b <= 80 /\ e <= 80
    THEN (a * a) * e > (c * c) * b
    ELSE DigitsGreater(
            DigitsTimes(DigitsTimes(Digits(Abs(a)), Digits(Abs(a))), Digits(e)),
            DigitsTimes(DigitsTimes(Digits(Abs(c)), Digits(Abs(c))), Digits(b)))

\* the locals of the loop before its first iteration
OtsuStart ==
    [wB |-> 0, sumB |-> 0, maxN |-> 0, maxD |-> 1, threshold |-> 0,
     broke |-> FALSE]

\* one iteration of  for (i = 0; i < 256; i++)  on the locals st, with
\* `continue` and `break` as in lines 601-605
OtsuStepGE(histogram, totalPixels, sum, st, i) ==
    IF st.broke THEN st
    ELSE LET wB == st.wB + histogram[i]
             wF == totalPixels - wB
             sumB == st.sumB + i * histogram[i]
             d == sumB * wF - (sum - sumB) * wB
         IN  IF wB = 0 THEN [st EXCEPT !.wB = wB]
             ELSE IF wF = 0 THEN [st EXCEPT !.wB = wB, !.broke = TRUE]
             ELSE IF VarGreaterOrEqual(d, wB * wF, st.maxN, st.maxD)
                  THEN [st EXCEPT !.wB = wB, !.sumB = sumB, !.maxN = d,
                                  !.maxD = wB * wF, !.threshold = i]
                  ELSE [st EXCEPT !.wB = wB, !.sumB = sumB]
OtsuStep(histogram, totalPixels, sum, st, i) ==
    IF st.broke THEN st
    ELSE LET wB == st.wB + histogram[i]
             wF == totalPixels - wB
             sumB == st.sumB + i * histogram[i]
             d == sumB * wF - (sum - sumB) * wB
         IN  IF wB = 0 THEN [st EXCEPT !.wB = wB]
             ELSE IF wF = 0 THEN [st EXCEPT !.wB = wB, !.broke = TRUE]
             ELSE IF VarGreater(d, wB * wF, st.maxN, st.maxD)
                  THEN [st EXCEPT !.wB = wB, !.sumB = sumB, !.maxN = d,
                                  !.maxD = wB * wF, !.threshold = i]
                  ELSE [st EXCEPT !.wB = wB, !.sumB = sumB]

RECURSIVE OtsuLoop(_, _, _, _, _, _)
\* the iterations lo..hi in order, from the locals st
OtsuLoop(histogram, totalPixels, sum, st, lo, hi) ==
    IF lo > hi THEN st
    ELSE IF lo = hi THEN OtsuStep(histogram, totalPixels, sum, st, lo)
    ELSE LET mid == (lo + hi) \div 2
             half == OtsuLoop(histogram, totalPixels, sum, st, lo, mid)
         IN  IF half.broke THEN half
             ELSE OtsuLoop(histogram, totalPixels, sum, half, mid + 1, hi)

calculateOtsuThreshold(histogram, totalPixels) ==
    LET T(i) == i * histogram[i]
        sum == SumOver(T, 0, 255)
    IN  OtsuLoop(histogram, totalPixels, sum, OtsuStart, 0, 255).threshold

VARIABLES
    oLower,    \* the lower non-empty gray level
    oUpper,    \* the upper non-empty gray level
    oHist,     \* the counts of the two bins, <<lower count, upper count>>
    oResult,   \* the threshold returned
    oStage     \* "off", "in", "done"

otsuVars == << oLower, oUpper, oHist, oResult, oStage >>

GrayLevels == {0, 1, 2, 20, 21, 100, 127, 128, 219, 220, 254, 255}

\* the 256-bin histogram with counts n1 at gray lo and n2 at gray hi
TwoBinHistogram(lo, n1, hi, n2) ==
    [g \in 0..255 |-> IF g = lo THEN n1 ELSE IF g = hi THEN n2 ELSE 0]

OtsuOff ==
    /\ oLower = 0
    /\ oUpper = 0
    /\ oHist = << 0, 0 >>
    /\ oResult = 0
    /\ oStage = "off"

OtsuInit ==
    /\ oLower \in GrayLevels
    /\ oUpper \in {g \in GrayLevels : g > oLower}
    /\ oHist \in (1..MaxCount) \X (1..MaxCount)
    /\ oResult = 0
    /\ oStage = "in"

OtsuRun ==
    /\ oStage = "in"
    /\ oResult' = calculateOtsuThreshold(
                     TwoBinHistogram(oLower, oHist[1], oUpper, oHist[2]),
                     oHist[1] + oHist[2])
    /\ oStage' = "done"
    /\ UNCHANGED << oLower, oUpper, oHist >>

(***************************************************************************)
(* The block loops of the scanners as a function of the image size.        *)
(***************************************************************************)
VARIABLES
    tWidth,    \* imageData.width
    tHeight,   \* imageData.height
    tBlock,    \* blockSize of the scanner
    tOrigins,  \* the origins <<x, y>> of the blocks scored, in loop order
    tStage     \* "off", "in", "done"

tilingVars == << tWidth, tHeight, tBlock, tOrigins, tStage >>

TileDims == {1, 19, 20, 21, 25, 26, 30, 31, 40, 41, 50, 51, 60, 61, 75, 76}

TilingOff ==
    /\ tWidth = 0
    /\ tHeight = 0
    /\ tBlock = 0
    /\ tOrigins = << >>
    /\ tStage = "off"

TilingInit ==
    /\ tWidth \in TileDims
    /\ tHeight \in TileDims
    /\ tBlock \in {EdgeBlockSize, ColorBlockSize, StrokeBlockSize}
    /\ tOrigins = << >>
    /\ tStage = "in"

\* the two for loops of a scanner run over the image
ScanBlocks ==
    /\ tStage = "in"
    /\ tOrigins' = Seq1(BlockOrigins(tWidth, tHeight, tBlock))
    /\ tStage' = "done"
    /\ UNCHANGED << tWidth, tHeight, tBlock >>

(***************************************************************************)
(* calculateAdaptiveThreshold from the histogram on (lines 561-570) and    *)
(* findHistogramPeaks.                                                     *)
(***************************************************************************)
PeakMinCount == 100

\* the local maxima findHistogramPeaks collects: i from 1 to 254
HistogramPeaks(histogram) ==
    {i \in 1..254 : /\ histogram[i] > histogram[i - 1]
                    /\ histogram[i] > histogram[i + 1]
                    /\ histogram[i] > PeakMinCount}

\* the peaks by falling count (the sort is stable: equal counts keep the
\* order of the gray levels), the first two of them
findHistogramPeaks(histogram) ==
    LET peaks == HistogramPeaks(histogram)
        Before(p, q) == \/ histogram[p] > histogram[q]
                        \/ (histogram[p] = histogram[q] /\ p < q)
    IN  [k \in 1..Min(2, Cardinality(peaks)) |->
            CHOOSE q \in peaks : Cardinality({p \in peaks : Before(p, q)}) = k - 1]

\* lines 561-570: Math.round((peaks[0] + peaks[1]) / 2), or Otsu
AdaptiveThresholdOf(histogram, totalPixels) ==
    LET peaks == findHistogramPeaks(histogram)
    IN  IF Len(peaks) >= 2
        THEN (peaks[1] + peaks[2] + 1) \div 2
        ELSE calculateOtsuThreshold(histogram, totalPixels)

VARIABLES
    aHist,     \* the 256-bin histogram
    aResult,   \* the threshold returned
    aStage     \* "off", "in", "done"

adaptVars == << aHist, aResult, aStage >>

\* most non-empty bins of a histogram in SpecAdaptive
MaxBins == 3

AdaptLevels == {0, 1, 100, 200, 254, 255}
AdaptCounts == {50, 101, 150}

\* the histograms with up to MaxBins non-empty bins
AdaptHistograms ==
    UNION { { [g \in 0..255 |-> IF g \in S THEN cnt[g] ELSE 0] :
                cnt \in [S -> AdaptCounts] } :
            S \in {T \in SUBSET AdaptLevels :
                      Cardinality(T) >= 1 /\ Cardinality(T) <= MaxBins} }

TotalOf(histogram) == SumOver(LAMBDA g : histogram[g], 0, 255)

AdaptOff ==
    /\ aHist = << >>
    /\ aResult = 0
    /\ aStage = "off"

AdaptInit ==
    /\ aHist \in AdaptHistograms
    /\ aResult = 0
    /\ aStage = "in"

AdaptRun ==
    /\ aStage = "in"
    /\ aResult' = AdaptiveThresholdOf(aHist, TotalOf(aHist))
    /\ aStage' = "done"
    /\ UNCHANGED aHist

(***************************************************************************)
(* The pixel filters: ImagePreprocessor.binarize and removeBackground      *)
(* (App.tsx), SmartTextDetector.binarizeForText, reduceColorComplexity and *)
(* analyzeColorBlock.  A buffer has a width, a height and data, one        *)
(* <<r, g, b, a>> per pixel: the pixel with idx / 4 = lin is data[lin + 1].*)
(***************************************************************************)
Buffer(w, h, data) == [width |-> w, height |-> h, data |-> data]

\* a store into a Uint8ClampedArray
ClampByteOff(v) == v
ClampByte(v) == Min(255, Max(0, v))

\* Math.round(0.299 * r + 0.587 * g + 0.114 * b)
Luma(p) == (299 * p[1] + 587 * p[2] + 114 * p[3] + 500) \div 1000

\* Math.round((r + g + b) / 3)
RoundedMean(p) == (2 * (p[1] + p[2] + p[3]) + 3) \div 6

\* gray > threshold ? 255 : 0  for gray = num / den
BinaryOfGE(num, den, threshold) == IF num >= threshold * den THEN 255 ELSE 0
BinaryOf(num, den, threshold) == IF num > threshold * den THEN 255 ELSE 0

\* histogram[gray]++ over the pixels
HistogramOf(data, Gray(_)) ==
    Fcn1([g \in 0..255 |-> Cardinality({k \in 1..Len(data) : Gray(data[k]) = g})])

\* the buffer with every pixel replaced by F(pixel)
MapPixels(buf, F(_)) ==
    [buf EXCEPT !.data = Seq1([k \in 1..Len(buf.data) |-> F(buf.data[k])])]

BinaryPixel(p, binary) == << binary, binary, binary, p[4] >>

\* App.tsx 330-355: <<threshold, buffer>>
binarizeAt(buf, threshold) ==
    << threshold,
       MapPixels(buf, LAMBDA p : BinaryPixel(p, BinaryOf(Luma(p), 1, threshold))) >>

binarize(buf) ==
    binarizeAt(buf, calculateOtsuThreshold(HistogramOf(buf.data, Luma),
                                           Len(buf.data)))

\* lines 551-571
calculateAdaptiveThreshold(buf) ==
    AdaptiveThresholdOf(HistogramOf(buf.data, RoundedMean), Len(buf.data))

\* lines 533-549: <<threshold, buffer>>; gray is (r + g + b) / 3, not rounded
binarizeForTextAt(buf, threshold) ==
    << threshold,
       MapPixels(buf, LAMBDA p :
           BinaryPixel(p, BinaryOf(p[1] + p[2] + p[3], 3, threshold))) >>

binarizeForText(buf) == binarizeForTextAt(buf, calculateAdaptiveThreshold(buf))

\* lines 746-758
reduceColorComplexity(buf) ==
    MapPixels(buf, LAMBDA p :
        << ClampByte(Quantize(p[1], 64)), ClampByte(Quantize(p[2], 64)),
           ClampByte(Quantize(p[3], 64)), p[4] >>)

\* a channel read at a negative index of the data is undefined, and a color
\* quantized from it is NaN
Undefined == -1

\* App.tsx 434-437: idx / 4 of every read of sampleArea, in loop order; the
\* only test before the read is idx < data.length
sampleAreaReads(buf, x, y, w, h) ==
    SelectSeq([k \in 1..(w * h) |->
                  (y + ((k - 1) \div w)) * buf.width + x + ((k - 1) % w)],
              LAMBDA lin : lin < Len(buf.data))

\* App.tsx 432-447: the samples of the w x h area at (x, y), in loop order
sampleArea(buf, x, y, w, h) ==
    LET lins == sampleAreaReads(buf, x, y, w, h)
    IN  Seq1([k \in 1..Len(lins) |->
            IF lins[k] < 0 THEN << Undefined, Undefined, Undefined >>
            ELSE << buf.data[lins[k] + 1][1], buf.data[lins[k] + 1][2],
                    buf.data[lins[k] + 1][3] >>])

QuantSample(p) ==
    IF p[1] = Undefined THEN p
    ELSE << Quantize(p[1], 16), Quantize(p[2], 16), Quantize(p[3], 16) >>

\* App.tsx 449-477: the first key of the colorMap with the greatest count,
\* white for an empty map
MostCommonOf(qc) ==
    IF Len(qc) = 0 THEN White ELSE DistinctOf(qc, 1)[1]

getMostCommonColor(colors) ==
    MostCommonOf(Seq1([k \in 1..Len(colors) |-> QuantSample(colors[k])]))

Tolerance == 30
CornerSize == 10

\* App.tsx 396-405
cornerSamples(buf) ==
    sampleArea(buf, 0, 0, CornerSize, CornerSize)
    \o sampleArea(buf, buf.width - CornerSize, 0, CornerSize, CornerSize)
    \o sampleArea(buf, 0, buf.height - CornerSize, CornerSize, CornerSize)
    \o sampleArea(buf, buf.width - CornerSize, buf.height - CornerSize,
                  CornerSize, CornerSize)

\* App.tsx 400-404: idx / 4 of every read of the four corner areas
cornerReads(buf) ==
    sampleAreaReads(buf, 0, 0, CornerSize, CornerSize)
    \o sampleAreaReads(buf, buf.width - CornerSize, 0, CornerSize, CornerSize)
    \o sampleAreaReads(buf, 0, buf.height - CornerSize, CornerSize, CornerSize)
    \o sampleAreaReads(buf, buf.width - CornerSize, buf.height - CornerSize,
                       CornerSize, CornerSize)

\* App.tsx 416-422: distance < tolerance; a distance from NaN is NaN
NearBackground(p, bgColor) ==
    /\ bgColor[1] # Undefined
    /\ SqDist(p, bgColor) < Tolerance * Tolerance

removeBackgroundWith(buf, bgColor) ==
    MapPixels(buf, LAMBDA p :
        IF NearBackground(p, bgColor) THEN << 255, 255, 255, p[4] >> ELSE p)

\* App.tsx 392-430
removeBackground(buf) ==
    removeBackgroundWith(buf, getMostCommonColor(cornerSamples(buf)))

\* lines 229-242 on a buffer: the colors of the block at (x, y)
BufferBlockColors(buf, x, y, size) ==
    LET lins == SelectSeq([k \in 1..(size * size) |->
                     (y + ((k - 1) \div size)) * buf.width + x + ((k - 1) % size)],
                     LAMBDA lin : lin < Len(buf.data))
    IN  Seq1([k \in 1..Len(lins) |->
            << buf.data[lins[k] + 1][1], buf.data[lins[k] + 1][2],
               buf.data[lins[k] + 1][3] >>])

\* a number with twice as its double, stored into a Uint8ClampedArray: the
\* nearest integer, the even one of two equally near
StoreHalves(twice) ==
    IF twice % 2 = 0 THEN twice \div 2
    ELSE IF (twice \div 2) % 2 = 0 THEN twice \div 2 ELSE twice \div 2 + 1

\* Math.min(255, Math.max(0, (v - 128) * factor + 128)) stored, for a factor
\* given as its double
ContrastOf(v, factor2) ==
    StoreHalves(Min(510, Max(0, (v - 128) * factor2 + 256)))

ContrastPixels(buf, factor2) ==
    MapPixels(buf, LAMBDA p :
        << ContrastOf(p[1], factor2), ContrastOf(p[2], factor2),
           ContrastOf(p[3], factor2), p[4] >>)

\* lines 474-484, factor given as its double
increaseContrast(buf, factor2) == ContrastPixels(buf, factor2)

\* App.tsx 285-297: factor = 1.5
enhanceContrast(buf) == ContrastPixels(buf, 3)

\* lines 486-498
removeColorNoise(buf) ==
    MapPixels(buf, LAMBDA p : << Luma(p), Luma(p), Luma(p), p[4] >>)

\* the pixels the loops  y = 1 .. height - 2, x = 1 .. width - 2  visit
IsInterior(buf, lin) ==
    /\ lin % buf.width >= 1 /\ lin % buf.width < buf.width - 1
    /\ lin \div buf.width >= 1 /\ lin \div buf.width < buf.height - 1

\* idx / 4 of the neighbour (dx, dy) = (j % 3 - 1, j \div 3 - 1) of pixel lin
NeighborOf(buf, lin, j) == lin + ((j \div 3) - 1) * buf.width + (j % 3) - 1

\* lines 514-522, App.tsx 493-501: sum of data[idx] * kernel[kernelIdx]
KernelSum(buf, lin, c, kernel) ==
    SumOver(LAMBDA j : buf.data[NeighborOf(buf, lin, j) + 1][c] * kernel[j + 1],
            0, 8)

\* the kernel loops with a store that wraps instead of clamping
ApplyKernelWrapping(buf, kernel) ==
    [buf EXCEPT !.data = Seq1([k \in 1..Len(buf.data) |->
        IF IsInterior(buf, k - 1)
        THEN << KernelSum(buf, k - 1, 1, kernel) % 256,
                KernelSum(buf, k - 1, 2, kernel) % 256,
                KernelSum(buf, k - 1, 3, kernel) % 256, buf.data[k][4] >>
        ELSE buf.data[k]])]

\* lines 502-530, App.tsx 481-509: newData is a copy of data, and the interior
\* R, G, B of newData are the clamped kernel sums over data
ApplyKernel(buf, kernel) ==
    [buf EXCEPT !.data = Seq1([k \in 1..Len(buf.data) |->
        IF IsInterior(buf, k - 1)
        THEN << ClampByte(KernelSum(buf, k - 1, 1, kernel)),
                ClampByte(KernelSum(buf, k - 1, 2, kernel)),
                ClampByte(KernelSum(buf, k - 1, 3, kernel)), buf.data[k][4] >>
        ELSE buf.data[k]])]

\* lines 505-509
TextKernel == << 0, -1, 0, -1, 6, -1, 0, -1, 0 >>

\* lines 500-531
sharpenText(buf) == ApplyKernel(buf, TextKernel)

\* App.tsx 484-488
SharpenKernel == << 0, -1, 0, -1, 5, -1, 0, -1, 0 >>

\* App.tsx 479-510
sharpen(buf) == ApplyKernel(buf, SharpenKernel)

\* App.tsx 512-516
deskew(buf) == buf

\* App.tsx 307-315: the 3 x 3 neighbourhood of channel c, in push order
Neighbors(buf, lin, c) ==
    [j \in 1..9 |-> buf.data[NeighborOf(buf, lin, j - 1) + 1][c]]

\* the element before the middle one of the sorted values
MedianLow(ns) ==
    CHOOSE v \in {ns[j] : j \in 1..Len(ns)} :
        /\ Cardinality({j \in 1..Len(ns) : ns[j] < v}) <= Len(ns) \div 2 - 1
        /\ Cardinality({j \in 1..Len(ns) : ns[j] <= v}) >= Len(ns) \div 2

\* App.tsx 318-319: neighbors sorted ascending, element Math.floor(length / 2)
MedianOf(ns) ==
    CHOOSE v \in {ns[j] : j \in 1..Len(ns)} :
        /\ Cardinality({j \in 1..Len(ns) : ns[j] < v}) <= Len(ns) \div 2
        /\ Cardinality({j \in 1..Len(ns) : ns[j] <= v}) >= Len(ns) \div 2 + 1

\* App.tsx 299-328: newData is a copy of data, and the interior R, G, B of
\* newData are medians over data
removeNoise(buf) ==
    [buf EXCEPT !.data = Seq1([k \in 1..Len(buf.data) |->
        IF IsInterior(buf, k - 1)
        THEN << MedianOf(Neighbors(buf, k - 1, 1)),
                MedianOf(Neighbors(buf, k - 1, 2)),
                MedianOf(Neighbors(buf, k - 1, 3)), buf.data[k][4] >>
        ELSE buf.data[k]])]

\* App.tsx 259-283: drawImage onto a canvas factor times as wide and high
\* with imageSmoothingEnabled = false, nearest neighbour
scaleUp(buf, factor) ==
    Buffer(buf.width * factor, buf.height * factor,
           Seq1([k \in 1..(Len(buf.data) * factor * factor) |->
               buf.data[(((k - 1) \div (buf.width * factor)) \div factor) * buf.width
                        + (((k - 1) % (buf.width * factor)) \div factor) + 1]]))

\* a step of a filter chain: the filter and the buffer it returned
Step(name, buf) == [name |-> name, buffer |-> buf]

\* the chain with grayscale before the contrast stretch
GrayFirst3(s1, s2, s3) ==
    << Step("removeColorNoise", s1), Step("increaseContrast", s2),
       Step("sharpenText", s3), Step("binarizeForText", binarizeForText(s3)[2]) >>

GrayFirst2(s1, s2) == GrayFirst3(s1, s2, sharpenText(s2))

GrayFirst1(s1) == GrayFirst2(s1, increaseContrast(s1, 4))

enhanceTextRegionGrayFirst(buf) == GrayFirst1(removeColorNoise(buf))

\* lines 439-442: the steps in the order they run, each on the buffer the
\* step before it returned
EnhanceSteps3(s1, s2, s3) ==
    << Step("increaseContrast", s1), Step("removeColorNoise", s2),
       Step("sharpenText", s3), Step("binarizeForText", binarizeForText(s3)[2]) >>

EnhanceSteps2(s1, s2) == EnhanceSteps3(s1, s2, sharpenText(s2))

EnhanceSteps1(s1) == EnhanceSteps2(s1, removeColorNoise(s1))

\* lines 437-445, factor = 2.0
enhanceTextRegion(buf) == EnhanceSteps1(increaseContrast(buf, 4))

\* App.tsx 155-163
PreprocessingOptions ==
    [enhanceContrast : BOOLEAN, removeNoise : BOOLEAN, binarize : BOOLEAN,
     deskew : BOOLEAN, scaleUp : BOOLEAN, sharpen : BOOLEAN,
     removeBackground : BOOLEAN]

\* App.tsx 247-257
getDefaultPreprocessingOptions ==
    [enhanceContrast |-> TRUE, removeNoise |-> TRUE, binarize |-> TRUE,
     deskew |-> FALSE, scaleUp |-> TRUE, sharpen |-> TRUE,
     removeBackground |-> TRUE]

\* App.tsx 190-217, one definition per step, in the order of the code
PreScale(buf, o) == IF o.scaleUp THEN scaleUp(buf, 2) ELSE buf
PreNoise(buf, o) == IF o.removeNoise THEN removeNoise(buf) ELSE buf
PreContrast(buf, o) == IF o.enhanceContrast THEN enhanceContrast(buf) ELSE buf
PreBackground(buf, o) == IF o.removeBackground THEN removeBackground(buf) ELSE buf
PreBinarize(buf, o) == IF o.binarize THEN binarize(buf)[2] ELSE buf
PreSharpen(buf, o) == IF o.sharpen THEN sharpen(buf) ELSE buf
PreDeskew(buf, o) == IF o.deskew THEN deskew(buf) ELSE buf

\* App.tsx 174-222: the imageData put back on the canvas
preprocessImage(buf, o) ==
    PreDeskew(PreSharpen(PreBinarize(PreBackground(PreContrast(
        PreNoise(PreScale(buf, o), o), o), o), o), o), o)

VARIABLES
    fIn,         \* the buffer given to the filter
    fOp,         \* "off", "in", or the filter that ran
    fOut,        \* the buffer after the filter
    fThreshold,  \* the threshold binarize or binarizeForText computed
    fVerdict,    \* what analyzeColorBlock returned
    fAfter,      \* the ImageData object that was given, after the filter
    fSteps,      \* the steps enhanceTextRegion ran, with their buffers
    fOptions     \* the options preprocessImage was given

filterVars == << fIn, fOp, fOut, fThreshold, fVerdict, fAfter, fSteps, fOptions >>

\* longest row of freely chosen pixels in SpecFilter
MaxPixels == 3

Palette ==
    { <<0, 0, 0, 255>>, <<255, 255, 255, 128>>, <<100, 101, 100, 255>>,
      <<224, 31, 96, 0>> }

UniformSizes == { <<1, 1>>, <<10, 3>>, <<10, 4>>, <<10, 10>>, <<12, 11>> }

\* the two colors of the 3 x 3 images
Speckle == << <<10, 200, 30, 255>>, <<250, 20, 90, 128>> >>

UniformColors ==
    { <<0, 0, 0, 255>>, <<8, 8, 8, 255>>, <<200, 40, 40, 77>>,
      <<248, 248, 248, 255>>, <<255, 255, 255, 255>> }

TwoTones ==
    { << <<40, 40, 40, 255>>, <<200, 200, 200, 255>> >>,
      << <<0, 0, 0, 255>>, <<255, 255, 255, 255>> >>,
      << <<100, 100, 100, 255>>, <<101, 101, 101, 9>> >> }

\* the options OCRProcessor can pass, a choice of them
PreprocessChoices ==
    { getDefaultPreprocessingOptions,
      [getDefaultPreprocessingOptions EXCEPT !.scaleUp = FALSE, !.deskew = TRUE],
      [o \in DOMAIN getDefaultPreprocessingOptions |->
          o \in {"binarize", "sharpen"}],
      [o \in DOMAIN getDefaultPreprocessingOptions |-> o = "binarize"],
      [o \in DOMAIN getDefaultPreprocessingOptions |->
          o \in {"sharpen", "enhanceContrast"}] }

\* rows of up to MaxPixels palette pixels, images of one color, 21 x 10
\* images with 105 pixels of each of two colors, and the 3 x 3 images of
\* the two speckle colors with every choice of the first two rows
FilterInputs ==
    UNION { { Buffer(n, 1, d) : d \in [1..n -> Palette] } : n \in 1..MaxPixels }
    \cup { Buffer(z[1], z[2], [k \in 1..(z[1] * z[2]) |-> c]) :
              z \in UniformSizes, c \in UniformColors }
    \cup { Buffer(21, 10, [k \in 1..210 |-> IF k <= 105 THEN t[1] ELSE t[2]]) :
              t \in TwoTones }
    \cup { Buffer(3, 3, [k \in 1..9 |-> Speckle[IF k <= 6 THEN d[k] ELSE 1 + (k % 2)]]) :
              d \in [1..6 -> {1, 2}] }

NoVerdict == [isTextLike |-> FALSE, confidence |-> 0]

FilterOff ==
    /\ fIn = Buffer(0, 0, << >>)
    /\ fOp = "off"
    /\ fOut = Buffer(0, 0, << >>)
    /\ fThreshold = 0
    /\ fVerdict = NoVerdict
    /\ fAfter = Buffer(0, 0, << >>)
    /\ fSteps = << >>
    /\ fOptions = getDefaultPreprocessingOptions

FilterInit ==
    /\ fIn \in FilterInputs
    /\ fOp = "in"
    /\ fOut = Buffer(0, 0, << >>)
    /\ fThreshold = 0
    /\ fVerdict = NoVerdict
    /\ fAfter = Buffer(0, 0, << >>)
    /\ fSteps = << >>
    /\ fOptions = getDefaultPreprocessingOptions

\* binarize writes into the data it was given
Binarize ==
    /\ fOp = "in"
    /\ LET res == binarize(fIn)
       IN  fThreshold' = res[1] /\ fOut' = res[2] /\ fAfter' = res[2]
    /\ fOp' = "binarize"
    /\ UNCHANGED << fIn, fVerdict, fSteps, fOptions >>

BinarizeForText ==
    /\ fOp = "in"
    /\ LET res == binarizeForText(fIn)
       IN  fThreshold' = res[1] /\ fOut' = res[2] /\ fAfter' = res[2]
    /\ fOp' = "binarizeForText"
    /\ UNCHANGED << fIn, fVerdict, fSteps, fOptions >>

RemoveBackground ==
    /\ fOp = "in"
    /\ fOut' = removeBackground(fIn)
    /\ fAfter' = fOut'
    /\ fOp' = "removeBackground"
    /\ UNCHANGED << fIn, fThreshold, fVerdict, fSteps, fOptions >>

ReduceColorComplexity ==
    /\ fOp = "in"
    /\ fOut' = reduceColorComplexity(fIn)
    /\ fAfter' = fOut'
    /\ fOp' = "reduceColorComplexity"
    /\ UNCHANGED << fIn, fThreshold, fVerdict, fSteps, fOptions >>

\* analyzeColorBlock(data, 0, 0, blockSize, width) of the color scanner
AnalyzeColorBlock ==
    /\ fOp = "in"
    /\ fVerdict' = AnalyzeColors(BufferBlockColors(fIn, 0, 0, ColorBlockSize))
    /\ fAfter' = fIn
    /\ fOp' = "analyzeColorBlock"
    /\ UNCHANGED << fIn, fOut, fThreshold, fSteps, fOptions >>

\* removeNoise reads data and writes newData
RemoveNoise ==
    /\ fOp = "in"
    /\ fOut' = removeNoise(fIn)
    /\ fAfter' = fIn
    /\ fOp' = "removeNoise"
    /\ UNCHANGED << fIn, fThreshold, fVerdict, fSteps, fOptions >>

\* increaseContrast and removeColorNoise write into the data given,
\* sharpenText returns a new ImageData
EnhanceTextRegion ==
    /\ fOp = "in"
    /\ fSteps' = enhanceTextRegion(fIn)
    /\ fOut' = fSteps'[Len(fSteps')].buffer
    /\ fAfter' = fSteps'[2].buffer
    /\ fOp' = "enhanceTextRegion"
    /\ UNCHANGED << fIn, fThreshold, fVerdict, fOptions >>

PreprocessImage(o) ==
    /\ fOp = "in"
    /\ fOptions' = o
    /\ fOut' = preprocessImage(fIn, o)
    /\ fAfter' = fIn
    /\ fOp' = "preprocessImage"
    /\ UNCHANGED << fIn, fThreshold, fVerdict, fSteps >>

(***************************************************************************)
(* ChineseAnalysis (part_002): translation with retries, and speech.  A    *)
(* function of the component sees the state of the render that made it:    *)
(* translateText reads the retryCount, and speakAllLines the autoPlay, of  *)
(* the render in which the press that started them was handled.            *)
(***************************************************************************)
VARIABLES
    retryCount,          \* React state
    isTranslating,
    translationError,    \* "", "Retrying", "Unavailable", "Network", "Failed"
    translation,         \* TRUE when a translation is shown
    chains,              \* per press: the calls of translateText it started
    autoPlay,
    currentlyPlaying,    \* 0 for null, k for line-(k-1)
    currentAudio,        \* 0 for null, else the audio element
    isGeneratingSpeech,
    textLines,           \* the number of lines
    speechCall,          \* the lineId of the speakText waiting for the voice
                         \* service: -1 none, 0 no lineId, k for line-(k-1)
    audios,              \* the audio elements made so far
    playing,             \* the audio elements that play
    spoken,              \* lineIds speakText was called with by speakAllLines
    pressed              \* the last button handled

analysisVars ==
    << retryCount, isTranslating, translationError, translation, chains,
       autoPlay, currentlyPlaying, currentAudio, isGeneratingSpeech, textLines,
       speechCall, audios, playing, spoken, pressed >>

\* presses of Translate or Retry followed
MaxChains == 2
\* requests followed per press
MaxRequests == 5
\* most lines of the text
MaxLines == 2
\* audio elements followed
MaxAudios == 2

\* line 177
maxRetries == 3

Outcomes == { "ok", "quota", "rate", "network", "other" }

IdleChain == [pc |-> "idle", seen |-> 0, currentRetry |-> 0, requests |-> 0]

\* line 178
CurrentRetry(isRetry, seen, live) == IF isRetry THEN seen + 1 ELSE 0

\* line 220
Retries(currentRetry, outcome) ==
    currentRetry < maxRetries /\ outcome \notin {"ok", "quota", "rate"}

\* lines 227-233
FinalMessage(outcome) ==
    IF outcome \in {"quota", "rate"} THEN "Unavailable"
    ELSE IF outcome = "network" THEN "Network" ELSE "Failed"

\* lines 170-195 for isRetry = false, from the Translate button (line 915):
\* no delay, the request is sent
Translate(c) ==
    /\ ~isTranslating
    /\ chains[c].pc = "idle"
    /\ \A d \in 1..(c - 1) : chains[d].pc # "idle"
    /\ isTranslating' = TRUE
    /\ translationError' = ""
    /\ chains' = [chains EXCEPT ![c] =
          [pc |-> "fetch", seen |-> retryCount,
           currentRetry |-> CurrentRetry(FALSE, retryCount, retryCount),
           requests |-> 1]]
    /\ pressed' = "translate"
    /\ UNCHANGED << retryCount, translation >>

\* lines 279-282, the Retry button (lines 1086-1088)
RetryTranslation(c) ==
    /\ ~isTranslating
    /\ translationError \notin {"", "Retrying"}
    /\ chains[c].pc = "idle"
    /\ \A d \in 1..(c - 1) : chains[d].pc # "idle"
    /\ retryCount' = 0
    /\ isTranslating' = TRUE
    /\ translationError' = ""
    /\ chains' = [chains EXCEPT ![c] =
          [pc |-> "fetch", seen |-> retryCount,
           currentRetry |-> CurrentRetry(FALSE, retryCount, retryCount),
           requests |-> 1]]
    /\ pressed' = "retry"
    /\ UNCHANGED translation

\* line 223: the timer calls translateText(true) of the render that made the
\* failed call; lines 174-184 up to the delay
RetryTimer(c) ==
    /\ chains[c].pc = "timer"
    /\ chains[c].requests < MaxRequests
    /\ isTranslating' = TRUE
    /\ translationError' = ""
    /\ chains' = [chains EXCEPT ![c].pc = "delay",
                                ![c].currentRetry =
                                    CurrentRetry(TRUE, chains[c].seen, retryCount)]
    /\ UNCHANGED << retryCount, translation, pressed >>

\* lines 183-195: the delay is over and the request is sent
SendRetry(c) ==
    /\ chains[c].pc = "delay"
    /\ chains' = [chains EXCEPT ![c].pc = "fetch",
                                ![c].requests = chains[c].requests + 1]
    /\ UNCHANGED << retryCount, isTranslating, translationError, translation,
                    pressed >>

\* lines 197-238: the answer, or the failure, of the request
Response(c, outcome) ==
    /\ chains[c].pc = "fetch"
    /\ IF outcome = "ok"
       THEN /\ translation' = TRUE
            /\ retryCount' = 0
            /\ translationError' = ""
            /\ chains' = [chains EXCEPT ![c].pc = "done"]
       ELSE IF Retries(chains[c].currentRetry, outcome)
       THEN /\ retryCount' = chains[c].currentRetry
            /\ translationError' = "Retrying"
            /\ chains' = [chains EXCEPT ![c].pc = "timer"]
            /\ UNCHANGED translation
       ELSE /\ translationError' = FinalMessage(outcome)
            /\ retryCount' = 0
            /\ chains' = [chains EXCEPT ![c].pc = "done"]
            /\ UNCHANGED translation
    /\ isTranslating' = FALSE
    /\ UNCHANGED pressed

transVars ==
    << retryCount, isTranslating, translationError, translation, chains >>

speechVars ==
    << autoPlay, currentlyPlaying, currentAudio, isGeneratingSpeech, textLines,
       speechCall, audios, playing, spoken >>

\* lines 284-292 on the state a function sees: <<currentAudio, currentlyPlaying,
\* autoPlay, playing>> after it
Stopped(audio, nowPlaying) == << 0, 0, FALSE, nowPlaying \ {audio} >>

\* the Stop Audio button (line 655)
StopCurrentAudio ==
    /\ currentAudio' = Stopped(currentAudio, playing)[1]
    /\ currentlyPlaying' = Stopped(currentAudio, playing)[2]
    /\ autoPlay' = Stopped(currentAudio, playing)[3]
    /\ playing' = Stopped(currentAudio, playing)[4]
    /\ pressed' = "stop"
    /\ UNCHANGED << isGeneratingSpeech, textLines, speechCall, audios, spoken >>

\* lines 294-306 up to the await, from a button that is disabled while
\* isGeneratingSpeech (lines 637, 689, 931); lineId 0 is no lineId
SpeakText(lineId) ==
    /\ ~isGeneratingSpeech
    /\ lineId # 0 => currentlyPlaying # lineId
    /\ audios < MaxAudios
    /\ currentAudio' = 0
    /\ playing' = playing \ {currentAudio}
    /\ autoPlay' = FALSE
    /\ currentlyPlaying' = lineId
    /\ isGeneratingSpeech' = TRUE
    /\ speechCall' = lineId
    /\ pressed' = "speak"
    /\ UNCHANGED << textLines, audios, spoken >>

\* lines 308-339: the voice service answered with a URL, with nothing
\* (browser speech), or failed
SpeechReady(answer) ==
    /\ speechCall # -1
    /\ IF answer = "url"
       THEN /\ audios' = audios + 1
            /\ currentAudio' = audios + 1
            /\ playing' = playing \cup {audios + 1}
            /\ UNCHANGED currentlyPlaying
       ELSE /\ currentlyPlaying' = 0
            /\ UNCHANGED << audios, currentAudio, playing >>
    /\ isGeneratingSpeech' = FALSE
    /\ speechCall' = -1
    /\ UNCHANGED << autoPlay, textLines, spoken, pressed >>

\* lines 313-316: onended of an audio element
AudioEnded(a) ==
    /\ a \in playing
    /\ playing' = playing \ {a}
    /\ currentlyPlaying' = 0
    /\ currentAudio' = 0
    /\ UNCHANGED << autoPlay, isGeneratingSpeech, textLines, speechCall, audios,
                    spoken, pressed >>

\* lines 350-357: the calls of speakText the loop makes before its first
\* await, with the autoPlay the function sees
LoopCalls(seen, lines) ==
    IF lines > 0 /\ seen THEN << 1 >> ELSE << >>

\* lines 342-381, the Play All button (lines 806, 850): with autoPlay it
\* stops; without, lines 348 and 380 set autoPlay to true and then to false
\* in the same handler when the loop makes no call
SpeakAllLines ==
    /\ ~isGeneratingSpeech
    /\ IF autoPlay
       THEN /\ currentAudio' = Stopped(currentAudio, playing)[1]
            /\ currentlyPlaying' = Stopped(currentAudio, playing)[2]
            /\ autoPlay' = Stopped(currentAudio, playing)[3]
            /\ playing' = Stopped(currentAudio, playing)[4]
            /\ UNCHANGED << spoken, isGeneratingSpeech, speechCall >>
       ELSE /\ spoken' = LoopCalls(autoPlay, textLines)
            /\ IF spoken' = << >>
               THEN /\ autoPlay' = FALSE
                    /\ UNCHANGED << currentAudio, currentlyPlaying, playing,
                                    isGeneratingSpeech, speechCall >>
               ELSE /\ currentAudio' = 0
                    /\ playing' = playing \ {currentAudio}
                    /\ autoPlay' = FALSE
                    /\ currentlyPlaying' = spoken'[1]
                    /\ isGeneratingSpeech' = TRUE
                    /\ speechCall' = spoken'[1]
    /\ pressed' = "playAll"
    /\ UNCHANGED << textLines, audios >>

AnalysisOff ==
    /\ retryCount = 0 /\ isTranslating = FALSE /\ translationError = ""
    /\ translation = FALSE
    /\ chains = [c \in 1..MaxChains |-> IdleChain]
    /\ autoPlay = FALSE /\ currentlyPlaying = 0 /\ currentAudio = 0
    /\ isGeneratingSpeech = FALSE /\ textLines = 0
    /\ speechCall = -1 /\ audios = 0 /\ playing = {} /\ spoken = << >>
    /\ pressed = "off"

\* lines 18-47: the component mounted with a text of some lines
AnalysisInit ==
    /\ retryCount = 0 /\ isTranslating = FALSE /\ translationError = ""
    /\ translation = FALSE
    /\ chains = [c \in 1..MaxChains |-> IdleChain]
    /\ autoPlay = FALSE /\ currentlyPlaying = 0 /\ currentAudio = 0
    /\ isGeneratingSpeech = FALSE /\ textLines \in 1..MaxLines
    /\ speechCall = -1 /\ audios = 0 /\ playing = {} /\ spoken = << >>
    /\ pressed = "none"

(***************************************************************************)
(* OCRProcessor (OCRProcessor.tsx): the runs of processOCR of one mounted  *)
(* component with a file.  A text is a sequence of character codes.        *)
(***************************************************************************)
VARIABLES
    isProcessing,
    isAnalyzingImage,
    extractedText,
    ocrError,            \* error: "", "NoText" or "Failed"
    useSmartOCR,
    hasAutoDetected,
    detectedLanguages,   \* TRUE when the list is not empty
    autoStart,           \* TRUE while the timer of the effect is pending
    runs                 \* the calls of processOCR

ocrVars ==
    << isProcessing, isAnalyzingImage, extractedText, ocrError, useSmartOCR,
       hasAutoDetected, detectedLanguages, autoStart, runs >>

\* calls of processOCR followed
MaxRuns == 2
\* most images detectAndExtractText returns
MaxImages == 2

IsSpace(ch) == ch \in {9, 10, 13, 32}

RECURSIVE TrimStart(_)
TrimStart(t) ==
    IF t # << >> /\ IsSpace(Head(t)) THEN TrimStart(Tail(t)) ELSE t

RECURSIVE TrimEnd(_)
TrimEnd(t) ==
    IF t # << >> /\ IsSpace(t[Len(t)]) THEN TrimEnd(SubSeq(t, 1, Len(t) - 1))
    ELSE t

\* text.trim()
Trim(t) == TrimEnd(TrimStart(t))

\* lines 140-141: /[\u4e00-\u9fff]/.test(text)
HasChinese(t) == \E k \in 1..Len(t) : t[k] >= 19968 /\ t[k] <= 40959

\* lines 122-128: the results after an answer of worker.recognize
Pushed(results, answer, source) ==
    IF Trim(answer.text) # << >>
    THEN Append(results,
                [text |-> Trim(answer.text),
                 confidence |-> IF answer.confidence = Undefined THEN 0
                                ELSE answer.confidence,
                 source |-> source])
    ELSE results

\* the callback with ties going to the later result
BetterOrEqual(best, current) ==
    IF HasChinese(current.text) /\ ~HasChinese(best.text) THEN current
    ELSE IF ~HasChinese(current.text) /\ HasChinese(best.text) THEN best
    ELSE IF current.confidence >= best.confidence THEN current ELSE best

\* lines 139-149: the callback of reduce
Better(best, current) ==
    IF HasChinese(current.text) /\ ~HasChinese(best.text) THEN current
    ELSE IF ~HasChinese(current.text) /\ HasChinese(best.text) THEN best
    ELSE IF current.confidence > best.confidence THEN current ELSE best

\* results.reduce(callback) without an initial value, over the first n results
RECURSIVE Reduce(_, _)
Reduce(results, n) ==
    IF n = 1 THEN results[1] ELSE Better(Reduce(results, n - 1), results[n])

\* what worker.recognize can answer with: text and confidence
Recognitions ==
    { [text |-> << 32 >>, confidence |-> 90],
      [text |-> << 32, 72, 105 >>, confidence |-> 90],
      [text |-> << 20320 >>, confidence |-> 50],
      [text |-> << 22909, 10 >>, confidence |-> 50],
      [text |-> << 40959 >>, confidence |-> 90],
      [text |-> << 19967 >>, confidence |-> 50],
      [text |-> << 72 >>, confidence |-> Undefined] }

NoResult == [text |-> << >>, confidence |-> 0, source |-> 0]

IdleRun ==
    [pc |-> "idle", smart |-> TRUE, regions |-> 0, images |-> 0, i |-> 0,
     results |-> << >>, best |-> NoResult, alone |-> TRUE]

InFlight == { r \in 1..MaxRuns : runs[r].pc \notin {"idle", "done", "failed"} }

\* lines 69-90 and 156-184: processOCR up to its first await
Begin(r) ==
    /\ runs[r].pc = "idle"
    /\ \A q \in 1..(r - 1) : runs[q].pc # "idle"
    /\ isProcessing' = TRUE
    /\ ocrError' = ""
    /\ extractedText' = << >>
    /\ hasAutoDetected' = FALSE
    /\ isAnalyzingImage' = (useSmartOCR \/ isAnalyzingImage)
    /\ runs' = [q \in 1..MaxRuns |->
          IF q = r
          THEN [IdleRun EXCEPT !.pc = IF useSmartOCR THEN "detecting"
                                       ELSE "standard",
                               !.smart = useSmartOCR,
                               !.alone = (InFlight = {})]
          ELSE IF q \in InFlight THEN [runs[q] EXCEPT !.alone = FALSE]
          ELSE runs[q]]
    /\ UNCHANGED useSmartOCR

\* lines 51-57: the timer set when the file was loaded calls processOCR()
AutoStart(r) ==
    /\ autoStart
    /\ autoStart' = FALSE
    /\ Begin(r)
    /\ UNCHANGED detectedLanguages

\* the Re-scan buttons (lines 338-340 and 528-530)
Rescan(r) ==
    /\ ~isProcessing /\ ~isAnalyzingImage
    /\ Begin(r)
    /\ UNCHANGED << autoStart, detectedLanguages >>

\* lines 252-257, from the buttons of lines 501-504 and 650-652
RetryWithDifferentLanguage(r) ==
    /\ detectedLanguages
    /\ (~isProcessing /\ ~isAnalyzingImage) \/ ocrError # ""
    /\ detectedLanguages' = FALSE
    /\ Begin(r)
    /\ UNCHANGED autoStart

\* line 284
ToggleSmartOCR ==
    /\ useSmartOCR' = ~useSmartOCR
    /\ UNCHANGED << isProcessing, isAnalyzingImage, extractedText, ocrError,
                    hasAutoDetected, detectedLanguages, autoStart, runs >>

\* lines 137-155 and 189-212 with lines 60-67: the end of a Smart OCR run
\* with these results
Finish(r, results) ==
    /\ IF results # << >>
       THEN /\ extractedText' = Reduce(results, Len(results)).text
            /\ hasAutoDetected' = TRUE
            /\ detectedLanguages' = TRUE
            /\ UNCHANGED ocrError
       ELSE /\ ocrError' = "NoText"
            /\ UNCHANGED << extractedText, hasAutoDetected, detectedLanguages >>
    /\ runs' = [runs EXCEPT ![r].pc = "done", ![r].results = results,
                            ![r].i = Len(results),
                            ![r].best = IF results # << >>
                                        THEN Reduce(results, Len(results))
                                        ELSE NoResult]
    /\ isProcessing' = FALSE
    /\ isAnalyzingImage' = FALSE

\* lines 90-96: detectAndExtractText resolved with regions and images
Detected(r, regions, images) ==
    /\ runs[r].pc = "detecting"
    /\ regions <= images /\ images <= regions + 1
    /\ IF images = 0
       THEN Finish(r, << >>)
       ELSE /\ runs' = [runs EXCEPT ![r].pc = "recognizing",
                                    ![r].regions = regions,
                                    ![r].images = images]
            /\ isAnalyzingImage' = FALSE
            /\ UNCHANGED << isProcessing, extractedText, ocrError,
                            hasAutoDetected, detectedLanguages >>
    /\ UNCHANGED << useSmartOCR, autoStart >>

\* lines 193-212: detectAndExtractText rejected
DetectFailed(r) ==
    /\ runs[r].pc = "detecting"
    /\ ocrError' = "Failed"
    /\ runs' = [runs EXCEPT ![r].pc = "failed"]
    /\ isProcessing' = FALSE
    /\ isAnalyzingImage' = FALSE
    /\ UNCHANGED << extractedText, useSmartOCR, hasAutoDetected,
                    detectedLanguages, autoStart >>

\* lines 103-104: 'Region i + 1' as i + 1, 'Enhanced Global' as 0
SourceLabel(i, regions) == IF i < regions THEN i + 1 ELSE 0

\* lines 101-132: image i is done, with an answer or with an error, which
\* is caught; after the last image the run ends
Recognized(r, failed, answer) ==
    /\ runs[r].pc = "recognizing"
    /\ IF runs[r].i + 1 = runs[r].images
       THEN Finish(r, IF failed THEN runs[r].results
                      ELSE Pushed(runs[r].results, answer,
                                  SourceLabel(runs[r].i, runs[r].regions)))
       ELSE /\ runs' = [runs EXCEPT
                  ![r].i = runs[r].i + 1,
                  ![r].results =
                      IF failed THEN runs[r].results
                      ELSE Pushed(runs[r].results, answer,
                                  SourceLabel(runs[r].i, runs[r].regions))]
            /\ UNCHANGED << isProcessing, isAnalyzingImage, extractedText,
                            ocrError, hasAutoDetected, detectedLanguages >>
    /\ UNCHANGED << useSmartOCR, autoStart >>

\* lines 184-212 with lines 60-67: standard OCR answered, or failed
StandardRecognized(r, failed, answer) ==
    /\ runs[r].pc = "standard"
    /\ IF failed
       THEN /\ ocrError' = "Failed"
            /\ UNCHANGED << extractedText, hasAutoDetected, detectedLanguages >>
       ELSE /\ extractedText' = Trim(answer.text)
            /\ hasAutoDetected' = (hasAutoDetected \/ Trim(answer.text) # << >>)
            /\ detectedLanguages' =
                  (detectedLanguages \/ Trim(answer.text) # << >>)
            /\ UNCHANGED ocrError
    /\ runs' = [runs EXCEPT ![r].pc = IF failed THEN "failed" ELSE "done"]
    /\ isProcessing' = FALSE
    /\ isAnalyzingImage' = FALSE
    /\ UNCHANGED << useSmartOCR, autoStart >>

OcrOff ==
    /\ isProcessing = FALSE /\ isAnalyzingImage = FALSE
    /\ extractedText = << >> /\ ocrError = ""
    /\ useSmartOCR = TRUE /\ hasAutoDetected = FALSE
    /\ detectedLanguages = FALSE /\ autoStart = FALSE
    /\ runs = [r \in 1..MaxRuns |-> IdleRun]

\* lines 23-48 and 51-57: the component mounted with a file, the timer set
OcrInit ==
    /\ isProcessing = FALSE /\ isAnalyzingImage = FALSE
    /\ extractedText = << >> /\ ocrError = ""
    /\ useSmartOCR = TRUE /\ hasAutoDetected = FALSE
    /\ detectedLanguages = FALSE /\ autoStart = TRUE
    /\ runs = [r \in 1..MaxRuns |-> IdleRun]

(***************************************************************************)
(* VoiceService (part_000): the audio cache.  A text is a sequence of      *)
(* character codes, a URL the number of the blob it names.                 *)
(***************************************************************************)
VARIABLES
    apiKey,        \* TRUE when apiKey and client are set
    audioCache,    \* the Map: a function from cache keys to URLs
    urls,          \* per URL made: what its audio was generated for
    revoked,       \* the URLs revoked
    calls          \* the calls of generateSpeech

voiceVars == << apiKey, audioCache, urls, revoked, calls >>

\* calls of generateSpeech followed
MaxCalls == 2
\* blob URLs followed
MaxUrls == 2

\* line 212: text.substring(0, 50)
KeyLength == 50
\* line 165: text.substring(0, 1000)
SpokenLength == 1000

\* text.substring(0, n)
Substring(t, n) == SubSeq(t, 1, Min(n, Len(t)))

\* a short text, and two texts of 51 characters that differ in the last
Texts ==
    { << 20320, 22909 >>,
      [k \in 1..(KeyLength + 1) |-> 20320],
      [k \in 1..(KeyLength + 1) |-> IF k <= KeyLength THEN 20320 ELSE 22909] }

Voices == { "JBFqnCBsd6RMkjVDRZzb", "pNInz6obpgDQGcFmaJgB" }

\* stability of the settings, in percent
SettingsChoices == { 50, 75 }

\* line 212
CacheKey(text, voiceId, settings) ==
    << voiceId, Substring(text, KeyLength), settings >>

\* lines 163-173: what the audio is generated for
Spoken(text, voiceId, settings) ==
    [text |-> Substring(text, SpokenLength), voice |-> voiceId,
     settings |-> settings]

IdleCall ==
    [pc |-> "idle", text |-> << >>, voice |-> "", settings |-> 0, url |-> 0,
     live |-> TRUE]

\* lines 114-135
SetApiKey ==
    /\ ~apiKey
    /\ apiKey' = TRUE
    /\ UNCHANGED << audioCache, urls, revoked, calls >>

\* lines 145-154
ClearApiKey ==
    /\ apiKey
    /\ apiKey' = FALSE
    /\ UNCHANGED << audioCache, urls, revoked, calls >>

\* lines 247-253 and 197-219: generateSpeech up to the await, or to its
\* return from the cache, or to its throw without a key
GenerateSpeech(c, text, voiceId, settings) ==
    /\ calls[c].pc = "idle"
    /\ \A d \in 1..(c - 1) : calls[d].pc # "idle"
    /\ calls' = [calls EXCEPT ![c] =
          IF ~apiKey
          THEN [IdleCall EXCEPT !.pc = "threw", !.text = text,
                                !.voice = voiceId, !.settings = settings]
          ELSE IF CacheKey(text, voiceId, settings) \in DOMAIN audioCache
          THEN [pc |-> "returned", text |-> text, voice |-> voiceId,
                settings |-> settings,
                url |-> audioCache[CacheKey(text, voiceId, settings)],
                live |-> audioCache[CacheKey(text, voiceId, settings)]
                            \notin revoked]
          ELSE [IdleCall EXCEPT !.pc = "streaming", !.text = text,
                                !.voice = voiceId, !.settings = settings]]
    /\ UNCHANGED << apiKey, audioCache, urls, revoked >>

\* lines 219-228: the stream ended; the URL is made, cached and returned
StreamDone(c) ==
    /\ calls[c].pc = "streaming"
    /\ Len(urls) < MaxUrls
    /\ urls' = Append(urls, Spoken(calls[c].text, calls[c].voice,
                                   calls[c].settings))
    /\ audioCache' =
          [k \in DOMAIN audioCache
                 \cup {CacheKey(calls[c].text, calls[c].voice, calls[c].settings)} |->
              IF k = CacheKey(calls[c].text, calls[c].voice, calls[c].settings)
              THEN Len(urls) + 1 ELSE audioCache[k]]
    /\ calls' = [calls EXCEPT ![c].pc = "returned", ![c].url = Len(urls) + 1]
    /\ UNCHANGED << apiKey, revoked >>

\* lines 229-243: the stream failed
StreamFailed(c) ==
    /\ calls[c].pc = "streaming"
    /\ calls' = [calls EXCEPT ![c].pc = "threw"]
    /\ UNCHANGED << apiKey, audioCache, urls, revoked >>

\* lines 289-297
Cleanup ==
    /\ revoked' = revoked \cup { audioCache[k] : k \in DOMAIN audioCache }
    /\ audioCache' = << >>
    /\ UNCHANGED << apiKey, urls, calls >>

VoiceOff ==
    /\ apiKey = FALSE /\ audioCache = << >> /\ urls = << >> /\ revoked = {}
    /\ calls = [c \in 1..MaxCalls |-> IdleCall]

\* lines 78-85: the singleton, with or without a key in localStorage
VoiceInit ==
    /\ apiKey \in BOOLEAN /\ audioCache = << >> /\ urls = << >> /\ revoked = {}
    /\ calls = [c \in 1..MaxCalls |-> IdleCall]

(***************************************************************************)
(* App (App.tsx): the views.  0 is null or the empty text.                 *)
(***************************************************************************)
VARIABLES
    selectedFile,
    audioBlob,
    currentView,
    chineseText,
    inputType,
    askedIn,       \* the view in which the analysis was asked for
    analysed,      \* the file, or the blob, the analysed text came from
    handled        \* the last handler that ran

appVars ==
    << selectedFile, audioBlob, currentView, chineseText, inputType, askedIn,
       analysed, handled >>

\* files, recordings and texts the user can give
MaxInputs == 2

\* lines 18-22
handleFileSelect(f) ==
    /\ currentView = "input"
    /\ selectedFile' = f
    /\ inputType' = "image"
    /\ currentView' = "ocr"
    /\ handled' = "handleFileSelect"
    /\ UNCHANGED << audioBlob, chineseText, askedIn, analysed >>

\* lines 24-28
handleTextInput(t) ==
    /\ currentView = "input"
    /\ chineseText' = t
    /\ inputType' = "text"
    /\ currentView' = "chinese-analysis"
    /\ askedIn' = "input"
    /\ analysed' = 0
    /\ handled' = "handleTextInput"
    /\ UNCHANGED << selectedFile, audioBlob >>

\* lines 30-34
handleAudioInput(b) ==
    /\ currentView = "input"
    /\ audioBlob' = b
    /\ inputType' = "audio"
    /\ currentView' = "audio"
    /\ handled' = "handleAudioInput"
    /\ UNCHANGED << selectedFile, chineseText, askedIn, analysed >>

\* lines 43-46, called by OCRProcessor with the text of its file
handleChineseAnalysis(t) ==
    /\ currentView = "ocr"
    /\ selectedFile # 0
    /\ chineseText' = t
    /\ currentView' = "chinese-analysis"
    /\ askedIn' = "ocr"
    /\ analysed' = selectedFile
    /\ handled' = "handleChineseAnalysis"
    /\ UNCHANGED << selectedFile, audioBlob, inputType >>

\* lines 56-59, called by AudioProcessor with the text of its recording
handleAudioTextExtracted(t) ==
    /\ currentView = "audio"
    /\ chineseText' = t
    /\ currentView' = "chinese-analysis"
    /\ askedIn' = "audio"
    /\ analysed' = audioBlob
    /\ handled' = "handleAudioTextExtracted"
    /\ UNCHANGED << selectedFile, audioBlob, inputType >>

\* lines 48-50, onBack of the OCR and audio views (lines 77, 112)
handleBackToInput ==
    /\ currentView \in {"ocr", "audio"}
    /\ currentView' = "input"
    /\ handled' = "handleBackToInput"
    /\ UNCHANGED << selectedFile, audioBlob, chineseText, inputType, askedIn,
                    analysed >>

\* line 65: onBack of the analysis view
BackTarget(type) == IF type = "text" THEN "input" ELSE "ocr"

\* lines 61-68 with 48-54: Back in the analysis view
AnalysisBack ==
    /\ currentView = "chinese-analysis"
    /\ currentView' = BackTarget(inputType)
    /\ handled' = "onBack"
    /\ UNCHANGED << selectedFile, audioBlob, chineseText, inputType, askedIn,
                    analysed >>

AppOff ==
    /\ selectedFile = 0 /\ audioBlob = 0 /\ currentView = "off"
    /\ chineseText = 0 /\ inputType = "image" /\ askedIn = "input"
    /\ analysed = 0 /\ handled = "off"

\* lines 12-16
AppInit ==
    /\ selectedFile = 0 /\ audioBlob = 0 /\ currentView = "input"
    /\ chineseText = 0 /\ inputType = "image" /\ askedIn = "input"
    /\ analysed = 0 /\ handled = "none"

(***************************************************************************)
(* Specifications.                                                         *)
(***************************************************************************)
unitVars == << tilingVars, adaptVars, filterVars >>

UnitsOff == TilingOff /\ AdaptOff /\ FilterOff

uiVars == << analysisVars, ocrVars, voiceVars, appVars >>

UiOff == AnalysisOff /\ OcrOff /\ VoiceOff /\ AppOff

vars == << orchVars, mergeVars, otsuVars, unitVars, uiVars >>

Init == OrchInit /\ MergeOff /\ OtsuOff /\ UnitsOff /\ UiOff

Next ==
    \/ \E c \in Calls, img \in CallImages, opts \in OptionChoices :
          Invoke(c, img, opts) /\ UNCHANGED << mergeVars, otsuVars, unitVars, uiVars >>
    \/ \E c \in Calls : ImageError(c) /\ UNCHANGED << mergeVars, otsuVars, unitVars, uiVars >>
    \/ \E c \in Calls : ImageLoaded(c) /\ UNCHANGED << mergeVars, otsuVars, unitVars, uiVars >>
    \/ \E c \in Calls, blob \in BOOLEAN :
          RegionBlobReady(c, blob) /\ UNCHANGED << mergeVars, otsuVars, unitVars, uiVars >>
    \/ \E c \in Calls, blob \in BOOLEAN :
          GlobalBlobReady(c, blob) /\ UNCHANGED << mergeVars, otsuVars, unitVars, uiVars >>
    \/ \E c \in Calls : ProcessImages(c) /\ UNCHANGED << mergeVars, otsuVars, unitVars, uiVars >>

\* the pipeline: calls of detectAndExtractText on the shared detector
Spec == Init /\ [][Next]_vars

MergeSpecInit == OrchInit /\ MergeInit /\ OtsuOff /\ UnitsOff /\ UiOff

MergeNext ==
    \/ MergeOnce /\ UNCHANGED << orchVars, otsuVars, unitVars, uiVars >>
    \/ MergeAgain /\ UNCHANGED << orchVars, otsuVars, unitVars, uiVars >>

\* mergeNearbyRegions on every bounded region list
SpecMerge == MergeSpecInit /\ [][MergeNext]_vars

OtsuSpecInit == OrchInit /\ MergeOff /\ OtsuInit /\ UnitsOff /\ UiOff

OtsuNext == OtsuRun /\ UNCHANGED << orchVars, mergeVars, unitVars, uiVars >>

\* calculateOtsuThreshold on every bounded two-bin histogram
SpecOtsu == OtsuSpecInit /\ [][OtsuNext]_vars

TilingSpecInit ==
    OrchInit /\ MergeOff /\ OtsuOff /\ TilingInit /\ AdaptOff /\ FilterOff /\ UiOff

TilingNext ==
    ScanBlocks
    /\ UNCHANGED << orchVars, mergeVars, otsuVars, adaptVars, filterVars, uiVars >>

\* the block loops on every bounded image size
SpecTiling == TilingSpecInit /\ [][TilingNext]_vars

AdaptSpecInit ==
    OrchInit /\ MergeOff /\ OtsuOff /\ TilingOff /\ AdaptInit /\ FilterOff /\ UiOff

AdaptNext ==
    AdaptRun
    /\ UNCHANGED << orchVars, mergeVars, otsuVars, tilingVars, filterVars, uiVars >>

\* calculateAdaptiveThreshold on every bounded histogram
SpecAdaptive == AdaptSpecInit /\ [][AdaptNext]_vars

FilterSpecInit ==
    OrchInit /\ MergeOff /\ OtsuOff /\ TilingOff /\ AdaptOff /\ FilterInit /\ UiOff

filterRest == << orchVars, mergeVars, otsuVars, tilingVars, adaptVars, uiVars >>

FilterNext ==
    \/ Binarize /\ UNCHANGED filterRest
    \/ BinarizeForText /\ UNCHANGED filterRest
    \/ RemoveBackground /\ UNCHANGED filterRest
    \/ ReduceColorComplexity /\ UNCHANGED filterRest
    \/ AnalyzeColorBlock /\ UNCHANGED filterRest
    \/ RemoveNoise /\ UNCHANGED filterRest
    \/ EnhanceTextRegion /\ UNCHANGED filterRest
    \/ \E o \in PreprocessChoices : PreprocessImage(o) /\ UNCHANGED filterRest

\* the pixel filters on every bounded buffer
SpecFilter == FilterSpecInit /\ [][FilterNext]_vars

\* what the pipeline and the units leave alone in the specifications of the
\* components
coreVars == << orchVars, mergeVars, otsuVars, unitVars >>

CoreOff == OrchInit /\ MergeOff /\ OtsuOff /\ UnitsOff

analysisRest == << ocrVars, voiceVars, appVars >>

AnalysisSpecInit == CoreOff /\ AnalysisInit /\ OcrOff /\ VoiceOff /\ AppOff

AnalysisNext ==
    \/ \E c \in 1..MaxChains : Translate(c) /\ UNCHANGED << coreVars, speechVars, analysisRest >>
    \/ \E c \in 1..MaxChains :
          RetryTranslation(c) /\ UNCHANGED << coreVars, speechVars, analysisRest >>
    \/ \E c \in 1..MaxChains : RetryTimer(c) /\ UNCHANGED << coreVars, speechVars, analysisRest >>
    \/ \E c \in 1..MaxChains : SendRetry(c) /\ UNCHANGED << coreVars, speechVars, analysisRest >>
    \/ \E c \in 1..MaxChains, outcome \in Outcomes :
          Response(c, outcome) /\ UNCHANGED << coreVars, speechVars, analysisRest >>
    \/ StopCurrentAudio /\ UNCHANGED << coreVars, transVars, analysisRest >>
    \/ \E lineId \in 0..MaxLines :
          lineId <= textLines /\ SpeakText(lineId) /\ UNCHANGED << coreVars, transVars, analysisRest >>
    \/ \E answer \in {"url", "browser", "error"} :
          SpeechReady(answer) /\ UNCHANGED << coreVars, transVars, analysisRest >>
    \/ \E a \in 1..MaxAudios : AudioEnded(a) /\ UNCHANGED << coreVars, transVars, analysisRest >>
    \/ SpeakAllLines /\ UNCHANGED << coreVars, transVars, analysisRest >>

\* ChineseAnalysis: the translation and speech handlers
SpecAnalysis == AnalysisSpecInit /\ [][AnalysisNext]_vars

OcrSpecInit == CoreOff /\ AnalysisOff /\ OcrInit /\ VoiceOff /\ AppOff

ocrRest == << coreVars, analysisVars, voiceVars, appVars >>

OcrNext ==
    \/ \E r \in 1..MaxRuns : AutoStart(r) /\ UNCHANGED ocrRest
    \/ \E r \in 1..MaxRuns : Rescan(r) /\ UNCHANGED ocrRest
    \/ \E r \in 1..MaxRuns : RetryWithDifferentLanguage(r) /\ UNCHANGED ocrRest
    \/ ToggleSmartOCR /\ UNCHANGED ocrRest
    \/ \E r \in 1..MaxRuns, images \in 0..MaxImages, regions \in 0..MaxImages :
          Detected(r, regions, images) /\ UNCHANGED ocrRest
    \/ \E r \in 1..MaxRuns : DetectFailed(r) /\ UNCHANGED ocrRest
    \/ \E r \in 1..MaxRuns, failed \in BOOLEAN, answer \in Recognitions :
          Recognized(r, failed, answer) /\ UNCHANGED ocrRest
    \/ \E r \in 1..MaxRuns, failed \in BOOLEAN, answer \in Recognitions :
          StandardRecognized(r, failed, answer) /\ UNCHANGED ocrRest

\* OCRProcessor: the runs of processOCR
SpecOCR == OcrSpecInit /\ [][OcrNext]_vars

VoiceSpecInit == CoreOff /\ AnalysisOff /\ OcrOff /\ VoiceInit /\ AppOff

voiceRest == << coreVars, analysisVars, ocrVars, appVars >>

VoiceNext ==
    \/ SetApiKey /\ UNCHANGED voiceRest
    \/ ClearApiKey /\ UNCHANGED voiceRest
    \/ \E c \in 1..MaxCalls, text \in Texts, voiceId \in Voices,
          settings \in SettingsChoices :
          GenerateSpeech(c, text, voiceId, settings) /\ UNCHANGED voiceRest
    \/ \E c \in 1..MaxCalls : StreamDone(c) /\ UNCHANGED voiceRest
    \/ \E c \in 1..MaxCalls : StreamFailed(c) /\ UNCHANGED voiceRest
    \/ Cleanup /\ UNCHANGED voiceRest

\* VoiceService: generateSpeech and cleanup
SpecVoice == VoiceSpecInit /\ [][VoiceNext]_vars

AppSpecInit == CoreOff /\ AnalysisOff /\ OcrOff /\ VoiceOff /\ AppInit

appRest == << coreVars, analysisVars, ocrVars, voiceVars >>

AppNext ==
    \/ \E f \in 1..MaxInputs : handleFileSelect(f) /\ UNCHANGED appRest
    \/ \E t \in 1..MaxInputs : handleTextInput(t) /\ UNCHANGED appRest
    \/ \E b \in 1..MaxInputs : handleAudioInput(b) /\ UNCHANGED appRest
    \/ \E t \in 1..MaxInputs : handleChineseAnalysis(t) /\ UNCHANGED appRest
    \/ \E t \in 1..MaxInputs : handleAudioTextExtracted(t) /\ UNCHANGED appRest
    \/ handleBackToInput /\ UNCHANGED appRest
    \/ AnalysisBack /\ UNCHANGED appRest

\* App: the views
SpecApp == AppSpecInit /\ [][AppNext]_vars

(***************************************************************************)
(* What detectAndExtractText returns, and how processOCR labels it.        *)
(***************************************************************************)
\* line 463: the buffer createGlobalEnhancedImage makes
IsGlobalFile(f) == f.name = << "enhanced_global.png" >>

\* line 78 was reached: the call returned { regions, processedImages }
Resolved(c) == pc[c] \in {"Done", "Recognized"}

\* lines 61-67 and 394-435: the buffer extractAndEnhanceRegion makes of
\* regions[i] of the call
RegionFileOf(c, i) ==
    RegionFile(RegionBitmap(file[c], textRegions[c][i]), textRegions[c][i])

\* a step of call c that the browser takes: a load event or a toBlob callback
CallStep(c) ==
    \/ ImageError(c)
    \/ ImageLoaded(c)
    \/ \E blob \in BOOLEAN : RegionBlobReady(c, blob)
    \/ \E blob \in BOOLEAN : GlobalBlobReady(c, blob)

\* lines 28-78 run with no other call on the detector
AloneRegions(img, opts) ==
    IF opts.useTextDetection THEN RegionsOf[img] ELSE << >>

AloneImages(img, opts) ==
    LET regions == AloneRegions(img, opts)
        regionFiles ==
            IF opts.enhanceTextRegions
            THEN [i \in 1..Len(regions) |->
                     RegionFile(RegionBitmap(img, regions[i]), regions[i])]
            ELSE << >>
    IN  IF opts.fallbackToOriginal \/ Len(regions) = 0
        THEN Append(regionFiles, GlobalFile(GlobalBitmap(RawBitmap(img))))
        ELSE regionFiles

\* C1: a returned call holds the global buffer iff its region list is empty
\* or fallbackToOriginal is set; it holds at most one, and as the last
\* element; with useTextDetection off the regions are empty and
\* processedImages has exactly one element
C1_GlobalIffEmptyOrFallback ==
    \A c \in Calls :
        Resolved(c) =>
            LET images == processedImages[c]
                globals == {i \in 1..Len(images) : IsGlobalFile(images[i])}
            IN  /\ (globals # {}) <=>
                       (Len(textRegions[c]) = 0 \/ options[c].fallbackToOriginal)
                /\ globals \subseteq {Len(images)}
                /\ ~options[c].useTextDetection =>
                       (textRegions[c] = << >> /\ Len(images) = 1)

\* a call with useTextDetection off returned its one global buffer
C1_Witness ==
    \E c \in Calls :
        /\ Resolved(c)
        /\ ~options[c].useTextDetection
        /\ ~options[c].fallbackToOriginal
        /\ Len(processedImages[c]) = 1
        /\ IsGlobalFile(processedImages[c][1])

\* C2 as stated: whatever the options, processedImages starts with one
\* enhanced buffer per returned region, in the order of regions, and only
\* the global buffer follows them
C2_OneBufferPerRegion ==
    \A c \in Calls :
        Resolved(c) =>
            LET images == processedImages[c]
                k == Len(textRegions[c])
            IN  /\ Len(images) >= k
                /\ \A i \in 1..Len(images) :
                       IF i <= k THEN images[i] = RegionFileOf(c, i)
                       ELSE IsGlobalFile(images[i])

\* C2 amended: with enhanceTextRegions on, processedImages starts with one
\* enhanced buffer per returned region, in the order of regions, before the
\* global buffer; with enhanceTextRegions off it holds no region buffer
C2_OneBufferPerRegionWhenEnhancing ==
    \A c \in Calls :
        Resolved(c) =>
            LET images == processedImages[c]
                k == IF options[c].enhanceTextRegions
                     THEN Len(textRegions[c]) ELSE 0
            IN  /\ Len(images) >= k
                /\ \A i \in 1..Len(images) :
                       IF i <= k THEN images[i] = RegionFileOf(c, i)
                       ELSE IsGlobalFile(images[i])

\* a call returned two regions, their two buffers and the global buffer
C2_Witness ==
    \E c \in Calls :
        /\ Resolved(c)
        /\ options[c].enhanceTextRegions
        /\ Len(textRegions[c]) = 2
        /\ Len(processedImages[c]) = 3

\* C3 as stated: a call that found no region and has fallbackToOriginal off
\* returns empty regions and empty processedImages
C3_EmptyResult ==
    \A c \in Calls :
        (Resolved(c) /\ options[c].useTextDetection
                     /\ Len(textRegions[c]) = 0
                     /\ ~options[c].fallbackToOriginal) =>
            processedImages[c] = << >>

\* C3 amended: a call that found no region and has fallbackToOriginal off
\* returns empty regions and exactly the one global buffer, and no call
\* rejects once its image has loaded
C3_GlobalBufferOnly ==
    /\ [](\A c \in Calls :
             (Resolved(c) /\ options[c].useTextDetection
                          /\ Len(textRegions[c]) = 0
                          /\ ~options[c].fallbackToOriginal) =>
                 /\ Len(processedImages[c]) = 1
                 /\ processedImages[c][1] =
                        GlobalFile(GlobalBitmap(RawBitmap(file[c]))))
    /\ [][\A c \in Calls :
             (pc[c] # "Failed" /\ pc'[c] = "Failed") => pc[c] = "Loading"]_vars

\* detection ran on the blank image, found nothing, and the call returned
C3_Witness ==
    \E c \in Calls :
        /\ Resolved(c)
        /\ options[c].useTextDetection
        /\ ~options[c].fallbackToOriginal
        /\ file[c] = "blank"
        /\ textRegions[c] = << >>
        /\ Len(processedImages[c]) = 1

\* C4: a buffer labelled 'Region i+1' is the buffer made of regions[i], and
\* the global buffer is labelled 'Enhanced Global'
C4_TrueSource ==
    \A c \in Calls :
        pc[c] = "Recognized" =>
            \A i \in 1..Len(processedImages[c]) :
                /\ sources[c][i][1] = "Region" =>
                       /\ i <= Len(textRegions[c])
                       /\ sources[c][i] = << "Region", i >>
                       /\ processedImages[c][i] = RegionFileOf(c, i)
                /\ IsGlobalFile(processedImages[c][i]) =>
                       sources[c][i] = << "Enhanced Global" >>

\* C5: a call in flight has a step to take: its promise is never left with
\* nothing that settles it
C5_NeverPendingForever ==
    \A c \in Calls :
        pc[c] \in {"Loading", "RegionBlob", "GlobalBlob", "Pending"} =>
            ENABLED CallStep(c)

\* C6: a call that overlapped with another on the shared detector returns
\* the regions and buffers of the same call run alone
C6_SameAsAlone ==
    \A c \in Calls :
        Resolved(c) =>
            /\ textRegions[c] = AloneRegions(file[c], options[c])
            /\ processedImages[c] = AloneImages(file[c], options[c])

\* a call returned its global buffer after another call had drawn another
\* image on this.canvas while the toBlob was pending
C6_Witness ==
    \E c \in Calls :
        /\ Resolved(c)
        /\ redrawn[c]
        /\ Len(processedImages[c]) > 0
        /\ IsGlobalFile(processedImages[c][Len(processedImages[c])])
        /\ canvas.bitmap \notin {RawBitmap(file[c]),
                                 GlobalBitmap(RawBitmap(file[c]))}

\* C7: every region mergeNearbyRegions returns has width > 20 and
\* height > 10, and the merged regions it drops are exactly those with
\* width <= 20 or height <= 10
C7_MinimumSize ==
    mStage \in {"once", "twice"} =>
        LET clusters == MergeClusters(mIn)
            kept == {i \in 1..Len(clusters) :
                        clusters[i].width > 20 /\ clusters[i].height > 10}
        IN  /\ \A i \in 1..Len(mOut) :
                   mOut[i].width > 20 /\ mOut[i].height > 10
            /\ Len(mOut) = Cardinality(kept)
            /\ \A i \in kept : \E j \in 1..Len(mOut) : mOut[j] = clusters[i]

\* of a 15x30 and a 40x40 region far apart, only the second was returned
C7_Witness ==
    /\ mStage = "once"
    /\ mIn = << Region(0, 0, 15, 30, ConfDen), Region(60, 0, 40, 40, ConfDen) >>
    /\ mOut = << Region(60, 0, 40, 40, ConfDen) >>

\* C8: every region of a call has x, y, width, height >= 0, lies inside
\* the image, and has a confidence in [0, 1]
C8_InsideImage ==
    \A c \in Calls :
        \A i \in 1..Len(textRegions[c]) :
            LET r == textRegions[c][i]
            IN  /\ r.x >= 0 /\ r.y >= 0 /\ r.width >= 0 /\ r.height >= 0
                /\ r.x + r.width <= ImgWidth(file[c])
                /\ r.y + r.height <= ImgHeight(file[c])
                /\ r.confidence >= 0 /\ r.confidence <= ConfDen

\* a call returned two detected regions
C8_Witness ==
    \E c \in Calls :
        /\ Resolved(c)
        /\ file[c] = "twoWords"
        /\ Len(textRegions[c]) = 2

\* C9: merging the result of mergeNearbyRegions again changes nothing
C9_Idempotent ==
    mStage = "twice" => mOut2 = mOut

\* C10 as stated: the threshold of a histogram with two non-empty bins lies
\* strictly between the two gray levels
C10_StrictlyBetween ==
    oStage = "done" => (oLower < oResult /\ oResult < oUpper)

\* C10 amended: the threshold of a histogram with two non-empty bins is the
\* lower gray level, so lower <= t < upper
C10_LowerLevel ==
    oStage = "done" =>
        (oResult = oLower /\ oLower <= oResult /\ oResult < oUpper)

\* gray levels 20 and 220 with equal counts gave the threshold 20
C10_Witness ==
    /\ oStage = "done"
    /\ oLower = 20
    /\ oUpper = 220
    /\ oHist[1] = oHist[2]
    /\ oResult = 20

\* the candidate blocks of the three scanners, joined as they were found
RawCandidates(img) ==
    EdgeCandidatesOf[img] \o ColorCandidatesOf[img] \o StrokeRegionsOf[img]

\* C14 as stated: the returned regions are the merge and filter of the
\* joined raw candidate blocks of the edge, color and stroke scanners
C14_JoinThenMerge ==
    \A c \in Calls :
        (Resolved(c) /\ options[c].useTextDetection) =>
            textRegions[c] = mergeNearbyRegions(RawCandidates(file[c]))

\* C14 amended: the edge and the color scanner each merge and filter their
\* own candidate blocks; the results and the stroke blocks are joined in
\* that order, then merged and filtered once more
C14_MergePerScannerThenJoin ==
    \A c \in Calls :
        (Resolved(c) /\ options[c].useTextDetection) =>
            textRegions[c] =
                mergeNearbyRegions(
                    mergeNearbyRegions(EdgeCandidatesOf[file[c]])
                    \o mergeNearbyRegions(ColorCandidatesOf[file[c]])
                    \o StrokeRegionsOf[file[c]])

\* the lone 20px edge block was dropped by the edge scanner's own filter
\* before it could join the color block 30px away
C14_Witness ==
    \E c \in Calls :
        /\ Resolved(c)
        /\ options[c].useTextDetection
        /\ file[c] = "mixed"
        /\ Len(EdgeCandidatesOf[file[c]]) = 1
        /\ textRegions[c] = << Region(30, 0, 30, 30, ConfDen) >>

\* C15: the stroke scanner emits a block exactly when its dark-pixel ratio
\* is strictly between 0.10 and 0.40, with the ratio as confidence
C15_StrokeEmitsInRange ==
    \A c \in Calls :
        (Resolved(c) /\ options[c].useTextDetection) =>
            LET img == file[c]
                blocks == BlocksOf(img, StrokeBlockSize)
                emitted == StrokeRegionsOf[img]
            IN  \A b \in 1..Len(blocks) :
                    LET idx == BlockIndices(img, blocks[b][1], blocks[b][2],
                                            StrokeBlockSize)
                        dark == DarkPixels(img, idx)
                        total == Len(idx)
                    IN  (10 * dark > total /\ 10 * dark < 4 * total) <=>
                            \E k \in 1..Len(emitted) :
                                emitted[k] =
                                    Region(blocks[b][1], blocks[b][2],
                                           StrokeBlockSize, StrokeBlockSize,
                                           (dark * ConfDen) \div total)

\* C16: every region not yet absorbed when a cluster starts, and less than
\* 50px from the corner of the cluster's anchor, ends up in that cluster
C16_AbsorbsAllNearAnchor ==
    mStage \in {"once", "twice"} =>
        LET sets == ClusterMembers(mIn)
        IN  \A k \in 1..Len(sets) :
                \A j \in (sets[k].anchor + 1)..Len(mIn) :
                    (j \notin sets[k].usedBefore
                     /\ Near(mIn[sets[k].anchor], mIn[j])) =>
                        j \in sets[k].members

\* the bounding box of the regions mIn[i], i in S, with their maximal
\* confidence
BoundingBox(regions, S) ==
    LET i0 == CHOOSE i \in S : TRUE
        Least(F(_)) == CHOOSE v \in {F(i) : i \in S} :
                           \A i \in S : v <= F(i)
        Most(F(_)) == CHOOSE v \in {F(i) : i \in S} :
                          \A i \in S : v >= F(i)
        minX == Least(LAMBDA i : regions[i].x)
        minY == Least(LAMBDA i : regions[i].y)
        maxX == Most(LAMBDA i : regions[i].x + regions[i].width)
        maxY == Most(LAMBDA i : regions[i].y + regions[i].height)
    IN  Region(minX, minY, maxX - minX, maxY - minY,
               Most(LAMBDA i : regions[i].confidence))

\* C17: before the filter, the clusters of a pass are the bounding boxes,
\* with maximal confidence, of sets of input regions that partition the
\* input list
C17_ClustersPartitionInput ==
    mStage \in {"once", "twice"} =>
        LET clusters == MergeClusters(mIn)
            sets == ClusterMembers(mIn)
        IN  /\ Len(sets) = Len(clusters)
            /\ \A k \in 1..Len(sets) :
                   /\ sets[k].members # {}
                   /\ clusters[k] = BoundingBox(mIn, sets[k].members)
            /\ \A i \in 1..Len(mIn) :
                   Cardinality({k \in 1..Len(sets) : i \in sets[k].members}) = 1
            /\ \A k \in 1..Len(sets) : sets[k].members \subseteq 1..Len(mIn)

\* three regions were merged into two clusters, one of them of two regions
C17_Witness ==
    /\ mStage = "once"
    /\ Len(mIn) = 3
    /\ Len(MergeClusters(mIn)) = 2
    /\ \E k \in 1..2 : Cardinality(ClusterMembers(mIn)[k].members) = 2

\* C18: every block aligned at a multiple of the block size and lying
\* entirely inside the image is scored exactly once, and no scored block
\* extends outside the image
C18_FullTiling ==
    tStage = "done" =>
        /\ \A bx \in 0..(tWidth \div tBlock), by \in 0..(tHeight \div tBlock) :
               (bx * tBlock + tBlock <= tWidth /\ by * tBlock + tBlock <= tHeight) =>
                   Cardinality({i \in 1..Len(tOrigins) :
                       tOrigins[i] = << bx * tBlock, by * tBlock >>}) = 1
        /\ \A i \in 1..Len(tOrigins) :
               /\ tOrigins[i][1] + tBlock <= tWidth
               /\ tOrigins[i][2] + tBlock <= tHeight

\* the local maxima of the histogram with count > 100, at any gray level
LocalMaxima(histogram) ==
    {i \in 0..255 : /\ histogram[i] > PeakMinCount
                    /\ (i = 0 \/ histogram[i] > histogram[i - 1])
                    /\ (i = 255 \/ histogram[i] > histogram[i + 1])}

\* C19: with two or more local maxima of count > 100 the threshold is the
\* rounded midpoint of the two highest of them, otherwise it is the Otsu
\* threshold of the histogram
C19_MidpointOfTwoHighestPeaks ==
    aStage = "done" =>
        LET peaks == LocalMaxima(aHist)
        IN  IF Cardinality(peaks) >= 2
            THEN \E p, q \in peaks :
                    /\ p # q
                    /\ \A r \in peaks \ {p, q} :
                           aHist[r] <= aHist[p] /\ aHist[r] <= aHist[q]
                    /\ aResult = (p + q + 1) \div 2
            ELSE aResult = calculateOtsuThreshold(aHist, TotalOf(aHist))

\* every pixel of the buffer has the same color
Uniform(buf) ==
    \A k \in 1..Len(buf.data) :
        /\ buf.data[k][1] = buf.data[1][1]
        /\ buf.data[k][2] = buf.data[1][2]
        /\ buf.data[k][3] = buf.data[1][3]

\* C11: after binarize and after binarizeForText every pixel has
\* R = G = B in {0, 255}, is white exactly when its gray value (the rounded
\* luma in binarize, the mean (r + g + b) / 3 in binarizeForText) is greater
\* than the threshold the filter computed, and keeps its alpha
C11_BinaryPixels ==
    fOp \in {"binarize", "binarizeForText"} =>
        /\ fOut.width = fIn.width /\ fOut.height = fIn.height
        /\ Len(fOut.data) = Len(fIn.data)
        /\ \A k \in 1..Len(fIn.data) :
               LET p == fIn.data[k]
                   o == fOut.data[k]
                   above == IF fOp = "binarize" THEN Luma(p) > fThreshold
                            ELSE p[1] + p[2] + p[3] > 3 * fThreshold
               IN  /\ o[1] \in {0, 255} /\ o[2] = o[1] /\ o[3] = o[1]
                   /\ (o[1] = 255) <=> above
                   /\ o[4] = p[4]

\* binarizeForText turned a row of pixels into black and white ones and
\* kept an alpha other than 255
C11_Witness ==
    /\ fOp = "binarizeForText"
    /\ \E k \in 1..Len(fOut.data) : fOut.data[k][1] = 255
    /\ \E k \in 1..Len(fOut.data) :
           /\ fOut.data[k] = << 0, 0, 0, 0 >>
           /\ fIn.data[k] = << 224, 31, 96, 0 >>

\* C12: removeBackground turns an image of one color into an all-white
\* image, whatever the color and the size
C12_UniformBecomesWhite ==
    (fOp = "removeBackground" /\ Uniform(fIn)) =>
        \A k \in 1..Len(fOut.data) :
            /\ fOut.data[k][1] = 255
            /\ fOut.data[k][2] = 255
            /\ fOut.data[k][3] = 255

\* C13: for a block of one color analyzeColorBlock returns confidence 0.7
\* and isTextLike false; the color scanner finds no region in an image of
\* one color
C13_UniformBlockNotTextLike ==
    /\ (fOp = "analyzeColorBlock" /\ Uniform(fIn)) =>
           /\ ~fVerdict.isTextLike
           /\ 10 * fVerdict.confidence = 7 * ConfDen
    /\ ColorCandidatesOf["blank"] = << >>

\* analyzeColorBlock ran on a block of 100 pixels of one color
C13_Witness ==
    /\ fOp = "analyzeColorBlock"
    /\ Uniform(fIn)
    /\ Len(fIn.data) = 100
    /\ fIn.data[1] = << 200, 40, 40, 77 >>
    /\ ~fVerdict.isTextLike

\* C20 as stated: after reduceColorComplexity every R, G and B value is
\* the multiple of 64 nearest to its input value
C20_MultipleOf64 ==
    fOp = "reduceColorComplexity" =>
        \A k \in 1..Len(fIn.data), c \in 1..3 :
            /\ fOut.data[k][c] % 64 = 0
            /\ 2 * Abs(fOut.data[k][c] - fIn.data[k][c]) <= 64

\* C20 amended: every R, G and B value below 224 becomes the multiple of
\* 64 nearest to it, every value from 224 on becomes 255, and alpha is kept
C20_MultipleOf64Or255 ==
    fOp = "reduceColorComplexity" =>
        \A k \in 1..Len(fIn.data) :
            /\ \A c \in 1..3 :
                   LET v == fIn.data[k][c]
                       o == fOut.data[k][c]
                   IN  IF v < 224
                       THEN o % 64 = 0 /\ 2 * Abs(o - v) <= 64 /\ o <= 192
                       ELSE o = 255
            /\ fOut.data[k][4] = fIn.data[k][4]

\* a pixel (224, 31, 96) became (255, 0, 128)
C20_Witness ==
    /\ fOp = "reduceColorComplexity"
    /\ \E k \in 1..Len(fIn.data) :
           /\ fIn.data[k] = << 224, 31, 96, 0 >>
           /\ fOut.data[k] = << 255, 0, 128, 0 >>

(***************************************************************************)
(* The filter chains and the filters with a 3 x 3 neighbourhood.           *)
(***************************************************************************)
StepNames(steps) == [k \in 1..Len(steps) |-> steps[k].name]

Stretched(v) == Min(255, Max(0, 2 * v - 128))

\* C21: enhanceTextRegion runs contrast stretch with factor 2.0, grayscale
\* (R = G = B = luma), sharpening with centre weight 6 and adaptive
\* binarization, in this order, each on the buffer the step before it
\* returned, and what it returns is the buffer binarization returned.
C21_StepsInOrder ==
    fOp = "enhanceTextRegion" =>
        /\ StepNames(fSteps) = << "increaseContrast", "removeColorNoise",
                                  "sharpenText", "binarizeForText" >>
        /\ \A k \in 1..Len(fIn.data) :
              /\ fSteps[1].buffer.data[k] =
                    << Stretched(fIn.data[k][1]), Stretched(fIn.data[k][2]),
                       Stretched(fIn.data[k][3]), fIn.data[k][4] >>
              /\ \A c \in 1..3 :
                    fSteps[2].buffer.data[k][c] = Luma(fSteps[1].buffer.data[k])
        /\ TextKernel[5] = 6
        /\ fSteps[3].buffer = sharpenText(fSteps[2].buffer)
        /\ fSteps[4].buffer = binarizeForText(fSteps[3].buffer)[2]
        /\ fOut = fSteps[4].buffer

C21_Witness ==
    /\ fOp = "enhanceTextRegion"
    /\ fSteps[1].buffer # fIn
    /\ \A k \in 2..4 : fSteps[k].buffer # fSteps[k - 1].buffer
    /\ removeColorNoise(fIn) # fIn

\* C22: removeBackground reads no pixel index outside the buffer while it
\* samples the four corner areas.
C22_ReadsInsideBuffer ==
    fOp = "removeBackground" =>
        \A k \in 1..Len(cornerReads(fIn)) :
            /\ cornerReads(fIn)[k] >= 0
            /\ cornerReads(fIn)[k] < Len(fIn.data)

\* the values of channel c around pixel lin of the input
Around(lin, c) == Neighbors(fIn, lin, c)

\* C23: removeNoise returns a new buffer whose border pixels and alpha values
\* are the input's and whose interior R, G, B are the medians of the 9 input
\* values around them, and the input buffer is not modified.
C23_MedianOfInput ==
    fOp = "removeNoise" =>
        /\ fAfter = fIn
        /\ fOut.width = fIn.width /\ fOut.height = fIn.height
        /\ Len(fOut.data) = Len(fIn.data)
        /\ \A k \in 1..Len(fIn.data) :
              /\ fOut.data[k][4] = fIn.data[k][4]
              /\ ~IsInterior(fIn, k - 1) => fOut.data[k] = fIn.data[k]
              /\ IsInterior(fIn, k - 1) =>
                    \A c \in 1..3 :
                        /\ \E j \in 1..9 : Around(k - 1, c)[j] = fOut.data[k][c]
                        /\ Cardinality({j \in 1..9 :
                               Around(k - 1, c)[j] <= fOut.data[k][c]}) >= 5
                        /\ Cardinality({j \in 1..9 :
                               Around(k - 1, c)[j] >= fOut.data[k][c]}) >= 5

C23_Witness ==
    /\ fOp = "removeNoise"
    /\ \E k \in 1..Len(fIn.data) :
          IsInterior(fIn, k - 1) /\ fOut.data[k] # fIn.data[k]

\* C24: with options.binarize the buffer preprocessImage produces has every
\* R, G and B in {0, 255}, with or without sharpen and deskew.
C24_BinaryAfterSharpen ==
    (fOp = "preprocessImage" /\ fOptions.binarize) =>
        \A k \in 1..Len(fOut.data) :
            \A c \in 1..3 : fOut.data[k][c] \in {0, 255}

C24_Witness ==
    /\ fOp = "preprocessImage"
    /\ fOptions.binarize /\ fOptions.sharpen
    /\ \E k \in 1..Len(fOut.data) :
          /\ IsInterior(fOut, k - 1)
          /\ fOut.data[k][1] = 255
          /\ \E j \in {1, 3, 5, 7} : fOut.data[NeighborOf(fOut, k - 1, j) + 1][1] = 0

(***************************************************************************)
(* ChineseAnalysis: the retries of a translation, and Play All.            *)
(***************************************************************************)
\* C25: a press of Translate is followed by at most 4 requests, the first
\* and maxRetries = 3 retries, however the requests fail.
C25_AtMostFourRequests ==
    \A c \in 1..MaxChains : chains[c].requests <= maxRetries + 1

\* C26: when Play All is handled with autoPlay off and the text has lines,
\* speakText is called for the lines in index order, first for line-0.
C26_PlayAllSpeaksLines ==
    (pressed = "playAll" /\ textLines > 0) =>
        (Len(spoken) >= 1 /\ spoken[1] = 1)

(***************************************************************************)
(* OCRProcessor: overlapping runs, and the result a run selects.           *)
(***************************************************************************)
\* C27: at most one run of processOCR is in flight, and isProcessing is
\* true while one is.
C27_OneRunInFlight ==
    /\ Cardinality(InFlight) <= 1
    /\ InFlight # {} => isProcessing

Chosen(r) == runs[r].best

Class(r, res) ==
    { k \in 1..Len(runs[r].results) :
          HasChinese(runs[r].results[k].text) = HasChinese(res.text) }

C28_ReturnsOwnAudio ==
    \A c \in 1..MaxCalls :
        calls[c].pc = "returned" =>
            /\ urls[calls[c].url] =
                  Spoken(calls[c].text, calls[c].voice, calls[c].settings)
            /\ calls[c].live

\* C29: after Back in the analysis view the view is the one in which the
\* analysis was asked for, and the OCR view is shown only with the file
\* whose text was analysed.
C29_BackToOrigin ==
    handled = "onBack" =>
        /\ currentView = askedIn
        /\ currentView = "ocr" => (selectedFile # 0 /\ selectedFile = analysed)

====
